---- MODULE Spec2Model ----
(***************************************************************************)
(* Generation pipeline of the Mythos Engine: the fixed-window rate        *)
(* limiter (lib/rate-limiter), the AI client (lib/ai-client.ts) and the   *)
(* three route handlers (generate-script, generate-image and              *)
(* complete-comic-panel).                                                  *)
(***************************************************************************)
EXTENDS Integers, Sequences, FiniteSets, TLC

\* ------------------------------------------------------------------ bounds
\* Largest ceiling (maxRequests) a limiter is constructed with.
MaxCeiling == 2
\* Window length (windowMs), in clock ticks.
WindowMs == 2
\* Last clock value.
MaxTime == 3
\* Checks the harness issues beyond the ceiling inside one window.
ExtraChecks == 2
\* Last clock value while the client is called.
MaxClientTime == 1
\* The highest ceiling the checks of one window reach: the default image
\* ceiling outside development.
MaxCounted == 5

\* Client identities (the x-forwarded-for value, or 'unknown').
Ids == {"ip1", "ip2"}
\* The two limiter instances of the module.
Limiters == {"script", "image"}
\* Values of process.env.NODE_ENV.
NodeEnvs == {"development", "production", "test"}

VARIABLES
  now,           \* Date.now()
  nodeEnv,       \* process.env.NODE_ENV, fixed at start
  maxRequests,   \* [Limiters -> ceiling], the constructor argument
  limits,        \* [Limiters -> Map identifier -> RateLimitEntry]
  useMockMode,   \* AIClient.useMockMode, fixed at construction
  req,           \* [Slots -> the request a handler invocation is serving]
  window,        \* history: per limiter and identity, the window in progress
  lastCheck,     \* history: the latest isAllowed call of the limiter harness
  event,         \* history: what the step just taken did for its request
  probe          \* history of the harness at hand: the script handed to the
                 \* validators and their verdicts, the calls of the client,
                 \* the admissions of an identity

vars == <<now, nodeEnv, maxRequests, limits, useMockMode, req, window,
          lastCheck, event, probe>>

\* Fixed once the process has started.
config == <<nodeEnv, maxRequests, useMockMode>>

\* ------------------------------------------------------------ RateLimiter
\* Map.set(key, value)
MapSet(m, k, v) == [x \in (DOMAIN m) \cup {k} |-> IF x = k THEN v ELSE m[x]]

\* Map.delete over a set of keys
MapDelete(m, ks) == [x \in (DOMAIN m) \ ks |-> m[x]]

\* new Map()
EmptyMap == [x \in {} |-> 0]

\* The test "entry.count >= this.maxRequests" with a bug: > for >=.
ExhaustedOffByOne(entry, max) == entry.count > max

\* entry.count >= this.maxRequests
Exhausted(entry, max) == entry.count >= max

\* The test "now > entry.resetTime" with a bug: >= for >.
ExpiredInclusive(entry, t) == t >= entry.resetTime

\* The test with a bug: the window is taken to end where it started.
ExpiredEarly(entry, t) == t > entry.resetTime - WindowMs

\* now > entry.resetTime
Expired(entry, t) == t > entry.resetTime

\* The first branch with a bug: the fresh entry starts at count 0.
RestartFromZero(m, max, identifier, t) ==
  [limits |-> MapSet(m, identifier, [count |-> 0, resetTime |-> t + WindowMs]),
   result |-> [allowed |-> TRUE, remaining |-> max - 1,
               resetTime |-> t + WindowMs]]

\* The first branch with a bug: the fresh entry replaces the whole map.
RestartAlone(m, max, identifier, t) ==
  [limits |-> MapSet(EmptyMap, identifier,
                     [count |-> 1, resetTime |-> t + WindowMs]),
   result |-> [allowed |-> TRUE, remaining |-> max - 1,
               resetTime |-> t + WindowMs]]

\* isAllowed, first request or window expired: a fresh entry.
Restart(m, max, identifier, t) ==
  [limits |-> MapSet(m, identifier, [count |-> 1, resetTime |-> t + WindowMs]),
   result |-> [allowed |-> TRUE, remaining |-> max - 1,
               resetTime |-> t + WindowMs]]

\* The denial with a bug: it pushes the window's end to now + windowMs.
DenyExtending(m, max, identifier, t) ==
  [limits |-> MapSet(m, identifier, [count |-> m[identifier].count,
                                     resetTime |-> t + WindowMs]),
   result |-> [allowed |-> FALSE, remaining |-> 0,
               resetTime |-> t + WindowMs]]

\* isAllowed, ceiling reached: the map is not touched.
Deny(m, max, identifier, t) ==
  [limits |-> m,
   result |-> [allowed |-> FALSE, remaining |-> 0,
               resetTime |-> m[identifier].resetTime]]

\* The admission with a bug: the count is stepped by two.
AdmitByTwo(m, max, identifier, t) ==
  [limits |-> MapSet(m, identifier,
                     [count |-> m[identifier].count + 2,
                      resetTime |-> m[identifier].resetTime]),
   result |-> [allowed |-> TRUE,
               remaining |-> max - (m[identifier].count + 2),
               resetTime |-> m[identifier].resetTime]]

\* The admission with a bug: the incremented count is not stored back.
AdmitLost(m, max, identifier, t) ==
  [limits |-> m,
   result |-> [allowed |-> TRUE,
               remaining |-> max - (m[identifier].count + 1),
               resetTime |-> m[identifier].resetTime]]

\* isAllowed, below the ceiling: entry.count++ and the entry is stored back.
Admit(m, max, identifier, t) ==
  [limits |-> MapSet(m, identifier,
                     [count |-> m[identifier].count + 1,
                      resetTime |-> m[identifier].resetTime]),
   result |-> [allowed |-> TRUE,
               remaining |-> max - (m[identifier].count + 1),
               resetTime |-> m[identifier].resetTime]]

\* RateLimiter.isAllowed at time t: the new map and the returned object.
isAllowed(m, max, identifier, t) ==
  IF identifier \notin DOMAIN m \/ Expired(m[identifier], t)
  THEN Restart(m, max, identifier, t)
  ELSE IF Exhausted(m[identifier], max)
  THEN Deny(m, max, identifier, t)
  ELSE Admit(m, max, identifier, t)

\* cleanup with a bug: the test of the entry is left out.
cleanupAll(m, t) == MapDelete(m, DOMAIN m)

\* cleanup with a bug: an entry is deleted from the instant resetTime on.
cleanupAtDeadline(m, t) == MapDelete(m, {k \in DOMAIN m : t >= m[k].resetTime})

\* RateLimiter.cleanup
cleanup(m, t) == MapDelete(m, {k \in DOMAIN m : Expired(m[k], t)})

\* RateLimiter.resetLimits
resetLimits(m) == EmptyMap

\* ------------------------------------------------------- JavaScript values
\* A value as the validators see it: its typeof and, for a string, its
\* characters.
Undefined == [type |-> "undefined", chars |-> ""]
NumberValue == [type |-> "number", chars |-> ""]
Str(chars) == [type |-> "string", chars |-> chars]

\* ---------------------------------------------------------------- strings
UpperCase == "ABCDEFGHIJKLMNOPQRSTUVWXYZ"
LowerCase == "abcdefghijklmnopqrstuvwxyz"

\* The i-th character of a string, "" outside it.
CharAt(s, i) == IF i >= 1 /\ i <= Len(s) THEN SubSeq(s, i, i) ELSE ""

\* A function with every value computed: f @@ <<>> is f itself.
Tabulated(f) == f @@ <<>>

\* The lower-case letter of each upper-case one.
LowerOf ==
  Tabulated([c \in {CharAt(UpperCase, i) : i \in 1..26} |->
               CharAt(LowerCase,
                      CHOOSE i \in 1..26 : CharAt(UpperCase, i) = c)])

LowerChar(c) == IF c \in DOMAIN LowerOf THEN LowerOf[c] ELSE c

\* String.prototype.toLowerCase
RECURSIVE lower(_)
lower(s) ==
  IF Len(s) <= 1 THEN LowerChar(s)
  ELSE lower(SubSeq(s, 1, Len(s) \div 2))
         \o lower(SubSeq(s, Len(s) \div 2 + 1, Len(s)))

\* \w and \s of a regular expression
WordChars ==
  {CharAt(UpperCase, i) : i \in 1..26} \cup {CharAt(LowerCase, i) : i \in 1..26}
    \cup {"0", "1", "2", "3", "4", "5", "6", "7", "8", "9", "_"}

IsWordChar(c) == c \in WordChars

\* The vertical tab, U+000B: the string holds the character itself.
VerticalTab == ""

\* White space of \s and of trim: space, tab, line feed, vertical tab, form
\* feed and carriage return. The white space beyond ASCII (U+00A0, U+FEFF,
\* U+2028 and the like) is left out: a string of the model cannot tell those
\* characters apart.
IsSpace(c) == c \in {" ", "\t", "\n", VerticalTab, "\f", "\r"}

\* String.prototype.includes
includes(text, key) ==
  \E i \in 1..(Len(text) - Len(key) + 1) :
    SubSeq(text, i, i + Len(key) - 1) = key

RECURSIVE TrimStart(_)
TrimStart(s) ==
  IF Len(s) = 0 \/ ~IsSpace(CharAt(s, 1)) THEN s
  ELSE IF Len(s) = 1 THEN ""
  ELSE TrimStart(SubSeq(s, 2, Len(s)))

RECURSIVE TrimEnd(_)
TrimEnd(s) ==
  IF Len(s) = 0 \/ ~IsSpace(CharAt(s, Len(s))) THEN s
  ELSE IF Len(s) = 1 THEN ""
  ELSE TrimEnd(SubSeq(s, 1, Len(s) - 1))

\* String.prototype.trim
Trim(s) == TrimEnd(TrimStart(s))

\* s.split(/\s+/).length: one more than the number of whitespace runs.
SplitLength(s) ==
  1 + Cardinality({i \in 1..Len(s) :
                     /\ IsSpace(CharAt(s, i))
                     /\ (i = 1 \/ ~IsSpace(CharAt(s, i - 1)))})

\* -------------------------------------------------------------- AIClient
\* The value JSON.parse returns for a completion: null, or an object with
\* these three properties (a non-object value has none of them).
NullScript == [isNull |-> TRUE, narrator_caption |-> Undefined,
               dialogue |-> Undefined, image_description |-> Undefined]

Script(n, d, i) == [isNull |-> FALSE, narrator_caption |-> n,
                    dialogue |-> d, image_description |-> i]

\* validateScriptStructure with a bug: the typeof test of dialogue is missing.
validateScriptStructureNoDialogue(script) ==
  /\ ~script.isNull
  /\ script.narrator_caption.type = "string"
  /\ script.image_description.type = "string"
  /\ Len(script.narrator_caption.chars) > 0
  /\ Len(script.image_description.chars) > 0

\* AIClient.validateScriptStructure
validateScriptStructure(script) ==
  /\ ~script.isNull
  /\ script.narrator_caption.type = "string"
  /\ script.dialogue.type = "string"
  /\ script.image_description.type = "string"
  /\ Len(script.narrator_caption.chars) > 0
  /\ Len(script.image_description.chars) > 0

\* The route's test with a bug: narration and visual description are not
\* trimmed before their length is taken.
RouteRejectsScriptUntrimmed(script) ==
  \/ script.isNull
  \/ script.narrator_caption.type # "string"
  \/ script.dialogue.type # "string"
  \/ script.image_description.type # "string"
  \/ Len(script.narrator_caption.chars) = 0
  \/ Len(script.image_description.chars) = 0

\* complete-comic-panel's own test of the script generateScript returned:
\* TRUE when the route throws 'Generated script is incomplete or invalid'.
RouteRejectsScript(script) ==
  \/ script.isNull
  \/ script.narrator_caption.type # "string"
  \/ script.dialogue.type # "string"
  \/ script.image_description.type # "string"
  \/ Len(Trim(script.narrator_caption.chars)) = 0
  \/ Len(Trim(script.image_description.chars)) = 0

\* The 3 and the 20 of "wordCount < 3 || wordCount > 20".
MinWords == 3
MaxWords == 20

\* The word-count test with a bug: two words are let through.
WordCountRejectedLoose(wordCount) ==
  wordCount < MinWords - 1 \/ wordCount > MaxWords

\* wordCount < 3 || wordCount > 20
WordCountRejected(wordCount) == wordCount < MinWords \/ wordCount > MaxWords

\* A request body's scene (or imageDescription) property.
Absent == [present |-> FALSE, text |-> ""]
Text(t) == [present |-> TRUE, text |-> t]

\* n words with a run of white space between them.
RECURSIVE Spaced(_, _)
Spaced(n, blank) ==
  IF n = 1 THEN "w" ELSE Spaced(n - 1, blank) \o blank \o "w"

\* n words, one space between two.
Words(n) == Spaced(n, " ")

\* A run of each white-space character of IsSpace.
Blanks == " \t\n" \o VerticalTab \o "\f\r"

\* The scenes requests are made with.
SceneBodies ==
  {Absent, Text(""), Text(" \f" \o VerticalTab \o " "), Text(Words(1)),
   Text(Words(2)),
   Text(" w \f" \o VerticalTab \o "\tw "), Text(Words(MinWords)),
   Text(Spaced(MaxWords, Blanks)), Text(Words(MaxWords + 1))}

\* The image descriptions generate-image requests are made with.
DescriptionBodies ==
  {Absent, Text(" \f" \o VerticalTab), Text(Words(MinWords))}

\* The scene of the worked example, and the request body that carries it.
KrishnaScene == "Krishna lifts the mountain to protect villagers"
KrishnaBody == Text(KrishnaScene)

\* The bodies of the requests, and the word counts of their texts, computed
\* once.
RequestBodies == SceneBodies \cup DescriptionBodies \cup {KrishnaBody}

WordCounts ==
  Tabulated([text \in {body.text : body \in RequestBodies} |->
               SplitLength(Trim(text))])

\* !scene || scene.trim().length === 0
SceneMissing(body) ==
  \/ ~body.present
  \/ body.text = ""
  \/ Len(Trim(body.text)) = 0

\* scene.trim().split(/\s+/).length
wordCount(body) ==
  IF body.text \in DOMAIN WordCounts THEN WordCounts[body.text]
  ELSE SplitLength(Trim(body.text))

\* includes with a bug: a key is found only when it is the whole text.
HoldsWholeWord(text, key) == text = key

\* String.prototype.includes on the lower-cased text.
Holds(text, key) == includes(text, key)

\* The canned scripts: the three texts of each.
Canned(caption, line, description) ==
  Script(Str(caption), Str(line), Str(description))

KrishnaGovardhanScript ==
  Canned("With divine strength, Lord Krishna lifts the mighty Govardhan Hill to protect his devotees.",
         "Fear not, my children!",
         "Krishna in his blue form holds up the massive Govardhan Hill with one finger, while villagers and animals shelter beneath. His face radiates divine protection and love. The scene shows the contrast between the massive mountain and the small figure beneath it.")
KrishnaFluteScript ==
  Canned("Lord Krishna's divine flute calls forth the magic of creation itself.",
         "Come, let us dance!",
         "Krishna in his characteristic blue form plays a golden flute, surrounded by mesmerized devotees and animals. His peacock feather crown gleams, and the scene is filled with divine music notes and ethereal light.")
RamaBowScript ==
  Canned("Prince Rama's mighty strength shatters the divine bow, proving his worthiness.",
         "For Sita's hand!",
         "Rama in royal attire stands before the broken pieces of Shiva's divine bow. His face shows determination and divine power. The scene includes amazed onlookers and Sita watching with admiration. Golden light surrounds the moment of triumph.")
RamaArrowScript ==
  Canned("Prince Rama's arrow flies true, guided by dharma and divine purpose.",
         "For justice and truth!",
         "Rama in royal attire draws his mighty bow, aiming with perfect focus. His face shows determination and righteousness. The arrow glows with divine energy, and the background shows a forest setting with his loyal companions.")
HanumanScript ==
  Canned("Hanuman's mighty leap carries him across the vast ocean, mountain in hand.",
         "For Lord Rama!",
         "Hanuman in his orange form leaps dramatically across the ocean, carrying the Dronagiri mountain. His face shows determination and devotion. The scene captures the dynamic movement with wind effects and ocean waves below.")
ShivaScript ==
  Canned("Shiva's third eye opens, unleashing cosmic destruction upon the universe.",
         "Enough!",
         "Shiva with his third eye open, radiating destructive cosmic energy. His face shows divine fury and power. The scene includes ash-covered body, serpents, and cosmic destruction effects. The background shows the universe being consumed by divine fire.")
DurgaScript ==
  Canned("Goddess Durga's divine weapons strike down the buffalo demon Mahishasura.",
         "Evil shall not prevail!",
         "Durga with multiple arms wielding various divine weapons, riding her lion mount. Her face shows divine fury and determination. The scene shows the demon Mahishasura being defeated, with divine light and weapon effects.")
GaneshaScript ==
  Canned("Ganesha's wisdom flows as he writes the great epic, guided by Vyasa's words.",
         "The story unfolds...",
         "Ganesha with his elephant head sits writing, while Vyasa dictates the Mahabharata. His mouse companion sits nearby. The scene shows ancient scrolls, divine wisdom, and the sacred act of preserving knowledge.")
SpiritualScript ==
  Canned("In the sacred grove, the seeker's soul transcends mortal boundaries, touched by divine wisdom.",
         "I see the truth now...",
         "A serene figure in white robes sits in meditation pose within a mystical forest. Divine light streams down from above, illuminating their peaceful expression. Sacred symbols float in the air around them, and ancient trees form a natural temple.")
ActionScript ==
  Canned("With divine fury coursing through his veins, the warrior stands resolute against the demonic horde.",
         "I shall not yield!",
         "A muscular warrior in traditional Indian armor stands defiantly, wielding a glowing divine weapon. His face shows determination and divine radiance. Behind him, a dark demonic army approaches. The scene is bathed in golden light with dramatic shadows.")
DefaultMockScript ==
  Canned("The ancient tale unfolds as destiny weaves its intricate pattern through the fabric of time.",
         "So it begins...",
         "A majestic figure in traditional Indian attire stands before a grand temple. Their pose conveys wisdom and authority. The background shows intricate architectural details and mystical symbols. Soft lighting creates an atmosphere of reverence.")
\* generateScript's defaultScript, used when mock generation fails.
DefaultScript ==
  Canned("The ancient tale unfolds as destiny weaves its intricate pattern.",
         "So it begins...",
         "A majestic figure in traditional Indian attire stands before a grand temple with intricate architectural details and mystical symbols.")

\* The scene texts and image prompts the client is called with.
ClientScenes ==
  {KrishnaScene,
   "a quiet village",
   "a dramatic storm rises",
   ""}

ClientPrompts ==
  {KrishnaGovardhanScript.image_description.chars,
   "a quiet village"}

\* The texts generateMockScript and generateMockImage are called with: the
\* scenes and descriptions of the requests, and the image descriptions of
\* the canned scripts.
KnownTexts ==
  {body.text : body \in RequestBodies} \cup ClientScenes \cup ClientPrompts
    \cup {script.image_description.chars :
            script \in {KrishnaGovardhanScript, KrishnaFluteScript,
                        RamaBowScript, RamaArrowScript, HanumanScript,
                        ShivaScript, DurgaScript, GaneshaScript,
                        SpiritualScript, ActionScript, DefaultMockScript,
                        DefaultScript}}

\* The keys generateMockScript and generateMockImage search for.
Keywords ==
  {"krishna", "flute", "govardhan", "lift", "ram", "bow", "arrow", "sita",
   "break", "hanuman", "monkey", "leap", "mountain", "shiva", "third eye",
   "cosmic", "meditation", "durga", "battle", "demon", "weapon", "ganesha",
   "wisdom", "writing", "elephant", "mahabharata", "spiritual", "enlighten",
   "temple", "divine", "sacred", "fight", "war", "attack"}

\* The known texts in lower case, computed once.
LoweredTexts == Tabulated([text \in KnownTexts |-> lower(text)])

\* scene.toLowerCase()
toLowerCase(text) ==
  IF text \in DOMAIN LoweredTexts THEN LoweredTexts[text] ELSE lower(text)

\* The keys each known text holds, computed once.
KeywordsFound ==
  Tabulated([text \in {LoweredTexts[t] : t \in KnownTexts} |->
               Tabulated([key \in Keywords |-> Holds(text, key)])])

\* lowerScene.includes(key): a search of the whole text, across its words.
Includes(scene, key) ==
  IF scene \in DOMAIN KeywordsFound /\ key \in Keywords
  THEN KeywordsFound[scene][key]
  ELSE Holds(scene, key)

\* lowerScene.includes('third eye')
IncludesThirdEye(scene) == Includes(scene, "third eye")

IncludesAny(scene, keys) == \E k \in keys : Includes(scene, k)

\* Keys every object literal inherits from Object.prototype: looking one up
\* in mockScripts or styleImages gives a function (or the prototype object),
\* a truthy value, so the || default is not taken.
InheritedKeys ==
  {"constructor", "toString", "toLocaleString", "valueOf", "hasOwnProperty",
   "isPrototypeOf", "propertyIsEnumerable", "__proto__", "__defineGetter__",
   "__defineSetter__", "__lookupGetter__", "__lookupSetter__"}

\* Such a value read as a script: none of the three properties.
InheritedAsScript == Script(Undefined, Undefined, Undefined)

\* Such a value read as an image reference: not a string.
InheritedAsImage(key) ==
  [type |-> IF key = "__proto__" THEN "object" ELSE "function", chars |-> ""]

\* mockScripts[sceneType] || mockScripts.default
mockScripts(sceneType) ==
  IF sceneType = "action" THEN ActionScript
  ELSE IF sceneType = "spiritual" THEN SpiritualScript
  ELSE IF sceneType \in InheritedKeys THEN InheritedAsScript
  ELSE DefaultMockScript

\* AIClient.generateMockScript on the scene in lower case.
generateMockScriptLower(scene, sceneType) ==
  IF IncludesAny(scene, {"krishna", "flute", "govardhan"})
  THEN IF IncludesAny(scene, {"govardhan", "lift"})
       THEN KrishnaGovardhanScript ELSE KrishnaFluteScript
  ELSE IF IncludesAny(scene, {"ram", "bow", "arrow", "sita"})
  THEN IF IncludesAny(scene, {"bow", "break"})
       THEN RamaBowScript ELSE RamaArrowScript
  ELSE IF IncludesAny(scene, {"hanuman", "leap", "mountain"}) THEN HanumanScript
  ELSE IF IncludesAny(scene, {"shiva", "cosmic"}) \/ IncludesThirdEye(scene)
  THEN ShivaScript
  ELSE IF IncludesAny(scene, {"durga", "battle", "demon"}) THEN DurgaScript
  ELSE IF IncludesAny(scene, {"ganesha", "writing", "mahabharata"})
  THEN GaneshaScript
  ELSE IF IncludesAny(scene, {"meditation", "spiritual", "enlighten"})
  THEN SpiritualScript
  ELSE IF IncludesAny(scene, {"battle", "fight", "war"}) THEN ActionScript
  ELSE mockScripts(sceneType)

\* AIClient.generateMockScript
generateMockScript(scene, sceneType) ==
  generateMockScriptLower(toLowerCase(scene), sceneType)

\* generateScript in mock mode: the mock script, or defaultScript when the
\* mock script fails validateScriptStructure.
generateScriptMock(scene, sceneType) ==
  IF validateScriptStructure(generateMockScript(scene, sceneType))
  THEN generateMockScript(scene, sceneType)
  ELSE DefaultScript

\* The three stock pictures of generateMockImage.
ImageBlue == Str("photo-1578662996442-48f60103fc96")
ImagePeak == Str("photo-1506905925346-21bda4d32df4")
ImageArt == Str("photo-1541961017774-22349e4a1262")

\* styleImages[styleType] || styleImages.vibrant
styleImages(styleType) ==
  IF styleType = "vibrant" THEN ImageBlue
  ELSE IF styleType = "earth" THEN ImageArt
  ELSE IF styleType = "divine" THEN ImagePeak
  ELSE IF styleType \in InheritedKeys THEN InheritedAsImage(styleType)
  ELSE ImageBlue

\* AIClient.generateMockImage
generateMockImage(prompt, styleType) ==
  LET lowerPrompt == toLowerCase(prompt)
  IN IF IncludesAny(lowerPrompt, {"krishna", "flute", "govardhan"})
     THEN ImageBlue
     ELSE IF IncludesAny(lowerPrompt, {"ram", "bow", "arrow", "sita"})
     THEN ImagePeak
     ELSE IF IncludesAny(lowerPrompt, {"hanuman", "monkey", "leap", "mountain"})
     THEN ImageArt
     ELSE IF \/ IncludesAny(lowerPrompt, {"shiva", "meditation", "cosmic"})
             \/ IncludesThirdEye(lowerPrompt)
     THEN ImagePeak
     ELSE IF IncludesAny(lowerPrompt, {"durga", "battle", "demon", "weapon"})
     THEN ImageBlue
     ELSE IF IncludesAny(lowerPrompt, {"ganesha", "wisdom", "writing", "elephant"})
     THEN ImageArt
     ELSE IF IncludesAny(lowerPrompt, {"temple", "spiritual", "divine", "sacred"})
     THEN ImagePeak
     ELSE IF IncludesAny(lowerPrompt, {"battle", "fight", "war", "attack"})
     THEN ImageBlue
     ELSE styleImages(styleType)

\* What openai.moderations.create does: it throws, answers with no results,
\* answers with one of the seven unsafe categories set, with only another
\* category set, or with none set.
ModerationOutcomes == {"throws", "no_results", "unsafe", "flagged_only", "clean"}

\* checkContentSafety with a bug: a fault of the check counts as unsafe.
checkContentSafetyFailClosed(mock, outcome) ==
  IF mock THEN [safe |-> TRUE, flagged |-> FALSE]
  ELSE IF outcome \in {"throws", "no_results"}
  THEN [safe |-> FALSE, flagged |-> FALSE]
  ELSE [safe |-> outcome # "unsafe",
        flagged |-> outcome \in {"unsafe", "flagged_only"}]

\* checkContentSafety with a bug: the unsafe categories are never read.
checkContentSafetyAlwaysSafe(mock, outcome) ==
  IF mock THEN [safe |-> TRUE, flagged |-> FALSE]
  ELSE IF outcome \in {"throws", "no_results"}
  THEN [safe |-> TRUE, flagged |-> FALSE]
  ELSE [safe |-> TRUE, flagged |-> outcome \in {"unsafe", "flagged_only"}]

\* AIClient.checkContentSafety
checkContentSafety(mock, outcome) ==
  IF mock THEN [safe |-> TRUE, flagged |-> FALSE]
  ELSE IF outcome \in {"throws", "no_results"}
  THEN [safe |-> TRUE, flagged |-> FALSE]
  ELSE [safe |-> outcome # "unsafe",
        flagged |-> outcome \in {"unsafe", "flagged_only"}]

\* What openai.chat.completions.create does for generateScript: it throws
\* an error (code: error.error.code is 'model_not_found'; message: its
\* message holds 'model_not_found'), or it answers with no content, with
\* content JSON.parse refuses, or with content JSON.parse turns into script.
Failure(code, message) ==
  [kind |-> "error", code |-> code, message |-> message, script |-> NullScript]
NoContent ==
  [kind |-> "no_content", code |-> FALSE, message |-> FALSE, script |-> NullScript]
\* JSON.parse throws a SyntaxError.  echo: its message holds
\* 'model_not_found'; V8 from Node 19 on quotes a refused text shorter than
\* 21 characters whole, as in
\*   Unexpected token 'm', "model_not_found" is not valid JSON
\* while Node 18 names one character and its position only.
Unparsable(echo) ==
  [kind |-> "unparsable", code |-> FALSE, message |-> echo, script |-> NullScript]
Parsed(script) ==
  [kind |-> "json", code |-> FALSE, message |-> FALSE, script |-> script]

GoodScript == Script(Str("a"), Str(""), Str("a"))
BlankCaptionScript == Script(Str(Blanks), Str("a"), Str("a"))

\* The scripts a completion parses into.
ProviderScripts ==
  {GoodScript, BlankCaptionScript, NullScript,
   Script(Str(""), Str("a"), Str("a")),
   Script(Str("a"), Undefined, Str("a"))}

CompletionOutcomes ==
  {Failure(TRUE, FALSE), Failure(FALSE, TRUE), Failure(FALSE, FALSE),
   NoContent, Unparsable(FALSE), Unparsable(TRUE)}
  \cup {Parsed(s) : s \in ProviderScripts}

\* isModelNotFound of the error generateScript's catch receives: the error
\* of the provider, or one thrown inside the try ('No response content from
\* AI' and 'Invalid script structure from AI' carry neither mark; the
\* SyntaxError of JSON.parse carries the one its message holds).
isModelNotFound(outcome) == outcome.code \/ outcome.message

\* generateScript, the first completion: return the script, go on to the
\* fallback model, or throw 'Failed to generate script. Please try again.'
PrimaryAttempt(outcome) ==
  IF outcome.kind = "json" /\ validateScriptStructure(outcome.script)
  THEN [then |-> "return", script |-> outcome.script]
  ELSE IF isModelNotFound(outcome)
  THEN [then |-> "fallback", script |-> NullScript]
  ELSE [then |-> "throw", script |-> NullScript]

\* generateScript, the completion of gpt-3.5-turbo.
FallbackAttempt(outcome) ==
  IF outcome.kind = "json" /\ validateScriptStructure(outcome.script)
  THEN [then |-> "return", script |-> outcome.script]
  ELSE [then |-> "throw", script |-> NullScript]

\* What the quality completion does; validateQuality and the routes swallow
\* all of it.
QualityOutcomes == {"throws", "no_content", "unparsable", "null", "invalid", "valid"}

\* AIClient.validateQuality: the verdict it returns.  In mock mode, when the
\* completion throws, has no content or content JSON.parse refuses, the
\* verdict is the fail-safe { valid: true }; otherwise it is what JSON.parse
\* returns, null included.
validateQuality(mock, outcome) ==
  IF mock \/ outcome \in {"throws", "no_content", "unparsable", "valid"}
  THEN [isNull |-> FALSE, valid |-> TRUE]
  ELSE IF outcome = "null" THEN [isNull |-> TRUE, valid |-> FALSE]
  ELSE [isNull |-> FALSE, valid |-> FALSE]

\* The routes' quality block with a bug: the test of qualityCheck.valid is
\* outside the try, so the TypeError of a null verdict escapes.
qualityBlockUncaught(verdict) ==
  IF verdict.isNull THEN "thrown"
  ELSE IF ~verdict.valid THEN "warned" ELSE "passed"

\* The routes' quality block, try { if (!qualityCheck.valid) warn } catch {}:
\* the TypeError of a null verdict is caught and logged, an invalid verdict
\* is logged, and the handler goes on.
qualityBlock(verdict) ==
  IF verdict.isNull THEN "caught"
  ELSE IF ~verdict.valid THEN "warned" ELSE "passed"

\* What openai.images.generate does.
ImageOutcomes == {"throws", "no_url", "url"}

\* AIClient.generateScript as one call: what it returns or that it throws,
\* and how many calls of the provider it made.  first and second are what
\* the completions of the primary and of the fallback model do.
generateScript(mock, scene, sceneType, first, second) ==
  IF mock
  THEN IF validateScriptStructure(generateMockScript(scene, sceneType))
       THEN [threw |-> FALSE, script |-> generateMockScript(scene, sceneType),
             calls |-> 0]
       ELSE [threw |-> ~validateScriptStructure(DefaultScript),
             script |-> IF validateScriptStructure(DefaultScript)
                        THEN DefaultScript ELSE NullScript,
             calls |-> 0]
  ELSE LET p == PrimaryAttempt(first)
           f == FallbackAttempt(second)
       IN IF p.then = "fallback"
          THEN [threw |-> f.then = "throw", script |-> f.script, calls |-> 2]
          ELSE [threw |-> p.then = "throw", script |-> p.script, calls |-> 1]

\* The URL images.generate answers with.
ProviderImage == Str("dall-e-url")

\* AIClient.generateImage as one call (contentSafetyEnabled is false).
generateImage(mock, prompt, styleType, outcome) ==
  IF mock
  THEN [threw |-> FALSE, image |-> generateMockImage(prompt, styleType),
        calls |-> 0]
  ELSE [threw |-> outcome # "url",
        image |-> IF outcome = "url" THEN ProviderImage ELSE Undefined,
        calls |-> 1]

\* --------------------------------------------------------------- requests
\* Handler invocations that can be in progress: the steps of the one in
\* the observed slot are recorded in the history, the others run unrecorded.
Slots == {"r1", "r2", "r3"}

Observed == {"r1"}

\* The identities the service's requests come from.
Clients == {"ip1"}

\* The deployment profile the service is run under: the one in which the
\* administrative reset acts (elsewhere it changes nothing).
ServiceEnvs == {"development"}

\* The three POST handlers.
Routes == {"generate-script", "generate-image", "complete-comic-panel"}

\* The error strings of the responses.
ErrSceneRequired == "Scene description is required"
ErrWordCount == "Scene description should be 3-20 words for optimal results"
ErrImageRequired == "Image description is required"
ErrRateLimit == "Rate limit exceeded. Please try again later."
ErrScriptRateLimit == "Script generation rate limit exceeded. Please try again later."
ErrImageRateLimit == "Image generation rate limit exceeded. Please try again later."
ErrUnsafeScene == "Scene description contains inappropriate content. Please modify your request."
ErrUnsafeImage == "Image description contains inappropriate content. Please modify your request."
ErrScriptFailed == "Failed to generate script. Please try again."
ErrScriptIncomplete == "Generated script is incomplete or invalid: Missing required fields or empty required values"
ErrImageFailed == "Failed to generate image. Please try again."
ErrResetRefused == "Rate limit reset only available in development"
\* The message of a TypeError reaching the outer catch.
ErrNullVerdict == "Cannot read properties of null (reading 'valid')"

\* A response: the HTTP status, the body's error and the body's resetTime
\* (-1 when the body has none).
NoResponse == [status |-> 0, error |-> "", resetTime |-> -1]

Rejected(status, error) == [status |-> status, error |-> error, resetTime |-> -1]

RateLimited(error, result) ==
  [status |-> 429, error |-> error, resetTime |-> result.resetTime]

Success == [status |-> 200, error |-> "", resetTime |-> -1]

\* A slot no handler is using.  scene: the text the handler is still to
\* pass to generateScript (generateImage in generate-image); sceneType and
\* styleType: the categories of the body it is still to pass to
\* generateScript and to generateImage, "none" when it has none to pass;
\* script: the script generateScript has made; did: the steps the handler
\* has taken; calls: the provider calls made for the request, in order.
IdleRequest == [pc |-> "idle", route |-> "none", id |-> "none",
                scene |-> "", sceneType |-> "none", styleType |-> "none",
                script |-> NullScript, did |-> {}, calls |-> <<>>]

\* The provider calls a step makes: none in mock mode.
Calls(mock, names) == IF mock THEN <<>> ELSE names

\* The handler calls an async method of aiClient and awaits it.
Await(q, pc, step, calls) ==
  [q EXCEPT !.pc = pc, !.did = @ \cup {step}, !.calls = @ \o calls]

\* No completion, for a step that awaited none.
NoOutcome ==
  [kind |-> "none", code |-> FALSE, message |-> FALSE, script |-> NullScript]

\* History of a refused admission: when isAllowed was called and the
\* remaining it returned.
NoDenial == [at |-> -1, remaining |-> -1]

\* The step a handler has just taken: the request as the step
\* left it (pc "done" when it responded), what came in (the body, what the
\* moderation call did, what the completion did) and what went out.
NoEvent == [step |-> "none", request |-> IdleRequest,
            body |-> Absent, moderation |-> "none", completion |-> NoOutcome,
            quality |-> "none", image |-> Undefined, response |-> NoResponse,
            denial |-> NoDenial]

Step(name, q) == [NoEvent EXCEPT !.step = name, !.request = q]

\* The step ended with a response.
Responded(e, response) ==
  [e EXCEPT !.request.pc = "done", !.response = response]

\* The step ended with the 429 of a refused admission.
Refused(e, error, result, t) ==
  [e EXCEPT !.request.pc = "done", !.response = RateLimited(error, result),
            !.denial = [at |-> t, remaining |-> result.remaining]]

\* The slot after the step: free again once the handler has responded.
Slot(e) == IF e.request.pc = "done" THEN IdleRequest ELSE e.request

\* ------------------------------------------------------------- validators
NoProbe == [script |-> NullScript, done |-> FALSE, structure |-> FALSE,
            routeRejects |-> FALSE]

\* The values a property of the parsed completion is drawn from.
Values == {Undefined, NumberValue, Str(""), Str(Blanks), Str("a")}

AllScripts == {NullScript} \cup {Script(n, d, i) : n \in Values, d \in Values,
                                                   i \in Values}

\* ---------------------------------------------------------------- history
\* No window in progress: the clock is never negative, so this one is closed.
NoWindow == [resetAt |-> -1, checks |-> 0, admitted |-> 0]

WindowOpen(w, t) == t <= w.resetAt

\* The window after a check at time t: a check with no open window opens one
\* that lasts WindowMs; checks and admissions inside it are counted.
WindowAfter(w, t, allowed) ==
  IF WindowOpen(w, t)
  THEN [w EXCEPT !.checks = @ + 1, !.admitted = @ + (IF allowed THEN 1 ELSE 0)]
  ELSE [resetAt |-> t + WindowMs, checks |-> 1,
        admitted |-> IF allowed THEN 1 ELSE 0]

\* What lastCheck.before holds when the identity had no entry.
NoEntry == [count |-> 0, resetTime |-> -1]

NoCheck == [seq |-> 0, limiter |-> "none", id |-> "none", at |-> 0,
            before |-> NoEntry, after |-> NoEntry,
            result |-> [allowed |-> FALSE, remaining |-> 0, resetTime |-> 0]]

\* The record of a check: the entry it found and the object it returned.
CheckRecord(l, id, t, m, r) ==
  [seq |-> 1 - lastCheck.seq, limiter |-> l, id |-> id, at |-> t,
   before |-> IF id \in DOMAIN m THEN m[id] ELSE NoEntry,
   after |-> IF id \in DOMAIN r.limits THEN r.limits[id] ELSE NoEntry,
   result |-> r.result]

\* The count the harness drives a window to: the ceiling, when it is at
\* most MaxCounted; a higher ceiling is not reached, and the window is
\* driven as far as for a ceiling of one.
Driven(l) == IF maxRequests[l] <= MaxCounted THEN maxRequests[l] ELSE 1

\* May the harness issue one more check for this identity?
MayCheck(l, id) ==
  \/ ~WindowOpen(window[l][id], now)
  \/ window[l][id].checks < Driven(l) + ExtraChecks

\* May the service take one more request that reaches this limiter?  Until
\* the open window has refused one.
MayRequest(l, id) ==
  \/ ~WindowOpen(window[l][id], now)
  \/ window[l][id].checks <= Driven(l)

\* --------------------------------------------------------------- harness
\* The ceilings of scriptRateLimiter and imageRateLimiter when
\* RATE_LIMIT_REQUESTS_PER_MINUTE is not set: isDevelopment ? 50 : 10 and
\* isDevelopment ? 20 : 5.
defaultRequests(env) ==
  [l \in Limiters |->
     IF l = "script" THEN (IF env = "development" THEN 50 ELSE 10)
     ELSE (IF env = "development" THEN 20 ELSE 5)]

\* The ceilings the two limiters are constructed with: both the value of
\* RATE_LIMIT_REQUESTS_PER_MINUTE when it is set, the defaults otherwise.
Ceilings(env) ==
  {[l \in Limiters |-> c] : c \in 1..MaxCeiling} \cup {defaultRequests(env)}

InitLimiter ==
  /\ now = 0
  /\ nodeEnv \in NodeEnvs
  /\ maxRequests \in Ceilings(nodeEnv)
  /\ limits = [l \in Limiters |-> EmptyMap]
  /\ window = [l \in Limiters |-> [id \in Ids |-> NoWindow]]
  /\ lastCheck = NoCheck
  /\ useMockMode = TRUE
  /\ req = [r \in Slots |-> IdleRequest]
  /\ event = NoEvent
  /\ probe = NoProbe

\* limiter.isAllowed(identifier) at the current time, and its record.
Checked(l, id) ==
  /\ MayCheck(l, id)
  /\ LET r == isAllowed(limits[l], maxRequests[l], id, now)
     IN /\ limits' = [limits EXCEPT ![l] = r.limits]
        /\ window' = [window EXCEPT
                        ![l][id] = WindowAfter(@, now, r.result.allowed)]
        /\ lastCheck' = CheckRecord(l, id, now, limits[l], r)

Check(l, id) ==
  /\ Checked(l, id)
  /\ UNCHANGED <<now, config, req, event, probe>>

\* RateLimiter.getCurrentLimit at time t: the new map and the entry it
\* returns, NoEntry standing for null.
getCurrentLimit(m, identifier, t) ==
  IF identifier \notin DOMAIN m THEN [limits |-> m, entry |-> NoEntry]
  ELSE IF Expired(m[identifier], t)
  THEN [limits |-> MapDelete(m, {identifier}), entry |-> NoEntry]
  ELSE [limits |-> m, entry |-> m[identifier]]

\* limiter.getCurrentLimit(identifier) at the current time: no route calls
\* it, a caller of the exported limiters may.
GetCurrentLimit(l, id) ==
  /\ limits' = [limits EXCEPT ![l] = getCurrentLimit(@, id, now).limits]
  /\ UNCHANGED <<now, config, req, window, lastCheck, probe>>

\* The setInterval callback: cleanup of both limiters.
Sweep ==
  /\ limits' = [l \in Limiters |-> cleanup(limits[l], now)]
  /\ UNCHANGED <<now, config, req, window, lastCheck, probe>>

\* The test of the reset route with a bug: only production is refused.
resetAllowedOutsideProduction(env) == env # "production"

\* The test of the reset route: "Only allow in development".
resetAllowed(env) == env = "development"

\* POST /api/reset-rate-limits
AdminReset ==
  /\ IF ~resetAllowed(nodeEnv)
     THEN UNCHANGED <<limits, window>>
     ELSE /\ limits' = [l \in Limiters |-> resetLimits(limits[l])]
          /\ window' = [l \in Limiters |-> [id \in Ids |-> NoWindow]]
  /\ UNCHANGED <<now, config, req, lastCheck, probe>>

\* The clock advances by one, up to a bound; the history forgets the
\* windows whose resetAt passes.
Elapse(bound) ==
  /\ now < bound
  /\ now' = now + 1
  /\ window' = [l \in Limiters |-> [id \in Ids |->
                  IF WindowOpen(window[l][id], now + 1) THEN window[l][id]
                  ELSE NoWindow]]
  /\ UNCHANGED <<config, limits, req, lastCheck>>

\* The clock advances.
Tick == Elapse(MaxTime) /\ UNCHANGED probe

NextLimiter ==
  \/ \E id \in Ids : Check("script", id)
  \/ Check("image", "ip1")
  \/ \E id \in Ids : GetCurrentLimit("script", id) /\ UNCHANGED event
  \/ Sweep /\ UNCHANGED event
  \/ AdminReset /\ UNCHANGED event
  \/ Tick /\ UNCHANGED event

SpecLimiter == InitLimiter /\ [][NextLimiter]_vars

\* ------------------------------------------------------------- the routes
\* limiter.isAllowed(clientIP) inside a handler.
Admission(l, id) == isAllowed(limits[l], maxRequests[l], id, now)

\* The effect of that call on the limiter, and on the history of windows.
Counted(l, id, a) ==
  /\ limits' = [limits EXCEPT ![l] = a.limits]
  /\ window' = [window EXCEPT ![l][id] = WindowAfter(@, now, a.result.allowed)]

\* A request whose steps and calls are not recorded.
Unrecorded(q) == [q EXCEPT !.did = {}, !.calls = <<>>]

\* The step is taken: the slot holds what is left to do, the history the
\* step, when the slot is the observed one.
Taken(r, e) ==
  /\ event' = IF r \in Observed THEN e ELSE NoEvent
  /\ req' = [req EXCEPT ![r] = IF r \in Observed THEN Slot(e)
                                ELSE Unrecorded(Slot(e))]

NewRequest(route, id, body) ==
  [IdleRequest EXCEPT !.route = route, !.id = id, !.scene = body.text]

\* Does the handler get as far as its isAllowed call?
PassesValidation(route, body) ==
  /\ ~SceneMissing(body)
  /\ route = "generate-image" \/ ~WordCountRejected(wordCount(body))

\* POST of generate-script and of complete-comic-panel, up to the await of
\* checkContentSafety.
ReceiveScene(r, route, id, body, sceneType, styleType) ==
  /\ req[r].pc = "idle"
  /\ PassesValidation(route, body) => MayRequest("script", id)
  /\ LET e == [Step("receive", NewRequest(route, id, body)) EXCEPT !.body = body]
         a == Admission("script", id)
     IN IF SceneMissing(body)
        THEN /\ Taken(r, Responded(e, Rejected(400, ErrSceneRequired)))
             /\ UNCHANGED <<limits, window>>
        ELSE IF WordCountRejected(wordCount(body))
        THEN /\ Taken(r, Responded(e, Rejected(400, ErrWordCount)))
             /\ UNCHANGED <<limits, window>>
        ELSE /\ Counted("script", id, a)
             /\ Taken(r,
                  IF ~a.result.allowed
                  THEN Refused(e, IF route = "generate-script" THEN ErrRateLimit
                                  ELSE ErrScriptRateLimit, a.result, now)
                  ELSE [e EXCEPT !.request =
                          Await([@ EXCEPT !.did = {"scriptQuota"},
                                          !.sceneType = sceneType,
                                          !.styleType =
                                            IF route = "complete-comic-panel"
                                            THEN styleType ELSE "none"],
                                "safety", "checkContentSafety",
                                Calls(useMockMode, <<"moderation">>))])
  /\ UNCHANGED <<now, config, lastCheck, probe>>

\* POST of generate-image, up to the await of checkContentSafety.
ReceiveDescription(r, id, body, styleType) ==
  /\ req[r].pc = "idle"
  /\ PassesValidation("generate-image", body) => MayRequest("image", id)
  /\ LET e == [Step("receive", NewRequest("generate-image", id, body))
                 EXCEPT !.body = body]
         a == Admission("image", id)
     IN IF SceneMissing(body)
        THEN /\ Taken(r, Responded(e, Rejected(400, ErrImageRequired)))
             /\ UNCHANGED <<limits, window>>
        ELSE /\ Counted("image", id, a)
             /\ Taken(r,
                  IF ~a.result.allowed
                  THEN Refused(e, ErrRateLimit, a.result, now)
                  ELSE [e EXCEPT !.request =
                          Await([@ EXCEPT !.did = {"imageQuota"},
                                          !.styleType = styleType],
                                "safety", "checkContentSafety",
                                Calls(useMockMode, <<"moderation">>))])
  /\ UNCHANGED <<now, config, lastCheck, probe>>

\* The handler calls generateScript(scene, sceneType) and awaits it.  The
\* call runs up to its first await: in mock mode to its end, the promise
\* holding the script; in live mode to the completion request, whose prompt
\* holds the scene.
CallGenerateScript(q) ==
  Await([q EXCEPT !.scene = "",
                  !.sceneType = "none",
                  !.script = IF useMockMode
                             THEN generateScriptMock(q.scene, q.sceneType)
                             ELSE NullScript],
        "script", "generateScript", Calls(useMockMode, <<"primary">>))

\* checkContentSafety returns: the 400 of unsafe content, or the await of
\* generateScript (generateImage in generate-image).
ResumeSafety(r, outcome) ==
  /\ req[r].pc = "safety"
  /\ LET e == [Step("safety", req[r]) EXCEPT !.moderation = outcome]
         check == checkContentSafety(useMockMode, outcome)
     IN Taken(r,
          IF ~check.safe
          THEN Responded(e, Rejected(400, IF req[r].route = "generate-image"
                                          THEN ErrUnsafeImage ELSE ErrUnsafeScene))
          ELSE IF req[r].route = "generate-image"
          THEN [e EXCEPT !.request =
                  Await(@, "image", "generateImage", Calls(useMockMode, <<"image">>))]
          ELSE [e EXCEPT !.request = CallGenerateScript(@)])
  /\ UNCHANGED <<now, config, limits, window, lastCheck, probe>>

\* generateScript has returned script to the route: complete-comic-panel
\* tests it once more; then both routes await validateQuality.
ScriptReturned(e, script) ==
  IF e.request.route = "complete-comic-panel" /\ RouteRejectsScript(script)
  THEN Responded(e, Rejected(500, ErrScriptIncomplete))
  ELSE [e EXCEPT !.request =
          Await([@ EXCEPT !.script = script], "quality",
                "validateQuality", Calls(useMockMode, <<"quality">>))]

\* generateScript has thrown: the 500 of either route.
ScriptThrown(e) == Responded(e, Rejected(500, ErrScriptFailed))

\* The promise of generateScript in mock mode resolves.
ResumeScriptMock(r) ==
  /\ req[r].pc = "script"
  /\ useMockMode
  /\ Taken(r, ScriptReturned(Step("script", req[r]), req[r].script))
  /\ UNCHANGED <<now, config, limits, window, lastCheck, probe>>

\* The first completion of generateScript settles.
ResumeScript(r, outcome) ==
  /\ req[r].pc = "script"
  /\ ~useMockMode
  /\ LET e == [Step("script", req[r]) EXCEPT !.completion = outcome]
         attempt == PrimaryAttempt(outcome)
     IN Taken(r,
          IF attempt.then = "return" THEN ScriptReturned(e, attempt.script)
          ELSE IF attempt.then = "fallback"
          THEN [e EXCEPT !.request.pc = "fallback",
                         !.request.calls = @ \o <<"fallback">>]
          ELSE ScriptThrown(e))
  /\ UNCHANGED <<now, config, limits, window, lastCheck, probe>>

\* The completion of the fallback model settles.
ResumeFallback(r, outcome) ==
  /\ req[r].pc = "fallback"
  /\ LET e == [Step("fallback", req[r]) EXCEPT !.completion = outcome]
         attempt == FallbackAttempt(outcome)
     IN Taken(r,
          IF attempt.then = "return" THEN ScriptReturned(e, attempt.script)
          ELSE ScriptThrown(e))
  /\ UNCHANGED <<now, config, limits, window, lastCheck, probe>>

\* validateQuality returns and the quality block runs; an error escaping it
\* would reach the outer catch.  Then generate-script responds; complete-comic-panel asks the image limiter and
\* awaits generateImage.
ResumeQuality(r, outcome) ==
  /\ req[r].pc = "quality"
  /\ LET block == qualityBlock(validateQuality(useMockMode, outcome))
         e == [Step("quality", req[r]) EXCEPT !.quality = block]
         a == Admission("image", req[r].id)
     IN IF block = "thrown"
        THEN /\ Taken(r, Responded(e, Rejected(500,
                            IF req[r].route = "generate-script"
                            THEN ErrScriptFailed ELSE ErrNullVerdict)))
             /\ UNCHANGED <<limits, window>>
        ELSE IF req[r].route = "generate-script"
        THEN /\ Taken(r, Responded(e, Success))
             /\ UNCHANGED <<limits, window>>
        ELSE /\ Counted("image", req[r].id, a)
             /\ Taken(r,
                  IF ~a.result.allowed
                  THEN Refused(e, ErrImageRateLimit, a.result, now)
                  ELSE [e EXCEPT !.request =
                          Await([@ EXCEPT !.did = @ \cup {"imageQuota"}], "image",
                                "generateImage", Calls(useMockMode, <<"image">>))])
  /\ UNCHANGED <<now, config, lastCheck, probe>>

\* generateImage settles: generate-image called it with the description of
\* the body, complete-comic-panel with the script's image_description, both
\* with the styleType of the body.  The image URL is answered, or the 500
\* of a failed generation.
ResumeImage(r, outcome) ==
  /\ req[r].pc = "image"
  /\ LET prompt == IF req[r].route = "generate-image" THEN req[r].scene
                   ELSE req[r].script.image_description.chars
         made == generateImage(useMockMode, prompt, req[r].styleType, outcome)
         e == [Step("image", req[r]) EXCEPT !.image = made.image]
     IN Taken(r, IF ~made.threw THEN Responded(e, Success)
                 ELSE Responded(e, Rejected(500, ErrImageFailed)))
  /\ UNCHANGED <<now, config, limits, window, lastCheck, probe>>

\* The setInterval callback, while the service runs.
ServiceSweep == Sweep /\ event' = NoEvent

\* POST /api/reset-rate-limits, while the service runs.
ServiceReset == AdminReset /\ event' = NoEvent

\* The clock advances, while the service runs.
ServiceTick == Tick /\ event' = NoEvent

\* ------------------------------------------------------------ the service
\* The categories a request body names: a declared one (the default of an
\* absent property among them) and the name of an inherited property.
RouteSceneTypes == {"general", "action", "constructor"}
RouteStyleTypes == {"vibrant", "constructor"}

\* The categories sent to the slots S with a body: the recorded requests
\* name any of them, the unrecorded ones leave the property out, as do those
\* the handler answers before it uses the category.
Sent(S, route, body, categories, absent) ==
  IF S = Observed /\ PassesValidation(route, body) THEN categories
  ELSE {absent}

Init ==
  /\ now = 0
  /\ nodeEnv \in ServiceEnvs
  /\ maxRequests \in Ceilings(nodeEnv)
  /\ useMockMode \in BOOLEAN
  /\ limits = [l \in Limiters |-> EmptyMap]
  /\ req = [r \in Slots |-> IdleRequest]
  /\ window = [l \in Limiters |-> [id \in Ids |-> NoWindow]]
  /\ lastCheck = NoCheck
  /\ event = NoEvent
  /\ probe = NoProbe

\* The service, handling at most one request per slot of S at a time.
Service(S) ==
  \/ \E r \in S, id \in Clients, body \in SceneBodies :
       \E sceneType \in Sent(S, "generate-script", body, RouteSceneTypes,
                              "general") :
         \/ ReceiveScene(r, "generate-script", id, body, sceneType, "vibrant")
         \/ \E styleType \in Sent(S, "complete-comic-panel", body,
                                   RouteStyleTypes, "vibrant") :
              ReceiveScene(r, "complete-comic-panel", id, body, sceneType,
                           styleType)
  \/ \E r \in S, id \in Clients, body \in DescriptionBodies :
       \E styleType \in Sent(S, "generate-image", body, RouteStyleTypes,
                              "vibrant") :
         ReceiveDescription(r, id, body, styleType)
  \/ \E r \in S :
       \E outcome \in IF useMockMode THEN {"clean"} ELSE ModerationOutcomes :
         ResumeSafety(r, outcome)
  \/ \E r \in S : ResumeScriptMock(r)
  \/ \E r \in S, outcome \in CompletionOutcomes : ResumeScript(r, outcome)
  \/ \E r \in S, outcome \in CompletionOutcomes : ResumeFallback(r, outcome)
  \/ \E r \in S :
       \E outcome \in IF useMockMode THEN {"valid"} ELSE QualityOutcomes :
         ResumeQuality(r, outcome)
  \/ \E r \in S :
       \E outcome \in IF useMockMode THEN {"url"} ELSE ImageOutcomes :
         ResumeImage(r, outcome)
  \/ ServiceSweep
  \/ ServiceReset
  \/ ServiceTick

\* One request at a time, every step of it recorded.
Next == Service(Observed)

Spec == Init /\ [][Next]_vars

\* Two requests at a time, suspended and resumed in any order.
NextConcurrent == Service(Slots \ Observed)

SpecConcurrent == Init /\ [][NextConcurrent]_vars

\* ------------------------------------------------ the validators, alone
InitValidate ==
  /\ now = 0
  /\ nodeEnv = "production"
  /\ maxRequests = [l \in Limiters |-> 1]
  /\ limits = [l \in Limiters |-> EmptyMap]
  /\ window = [l \in Limiters |-> [id \in Ids |-> NoWindow]]
  /\ lastCheck = NoCheck
  /\ useMockMode = FALSE
  /\ req = [r \in Slots |-> IdleRequest]
  /\ event = NoEvent
  /\ \E s \in AllScripts : probe = [NoProbe EXCEPT !.script = s]

\* Both structural checks applied to the script.
Validate ==
  /\ ~probe.done
  /\ probe' = [probe EXCEPT !.done = TRUE,
                            !.structure = validateScriptStructure(probe.script),
                            !.routeRejects = RouteRejectsScript(probe.script)]
  /\ UNCHANGED <<now, config, limits, req, window, lastCheck, event>>

NextValidate == Validate

SpecValidate == InitValidate /\ [][NextValidate]_vars

\* generateCompleteComicPanel of the browser's API client: the errorType it
\* returns for a response that is not ok, errorMessage being the error
\* string of the response body.
errorType(errorMessage) ==
  IF includes(errorMessage, "script") \/ includes(errorMessage, "Script")
  THEN "script_generation_error"
  ELSE IF includes(errorMessage, "image") \/ includes(errorMessage, "Image")
  THEN "image_generation_error"
  ELSE "general_error"

\* ----------------------------------------------------------- the reset
\* Checks of both limiters with resets between them; the history holds the
\* response of the latest reset until the clock moves.
ResetRequest ==
  /\ AdminReset
  /\ event' = [NoEvent EXCEPT
                 !.step = "reset",
                 !.response = IF resetAllowed(nodeEnv) THEN Success
                              ELSE Rejected(403, ErrResetRefused)]

NextReset ==
  \/ \E l \in Limiters : Check(l, "ip1")
  \/ ResetRequest
  \/ ServiceTick

SpecReset == InitLimiter /\ [][NextReset]_vars

\* ------------------------------------------------------ the two limiters
\* Checks of the script limiter for both identities and of the image
\* limiter for one of them, in production.
InitQuotas == InitLimiter /\ nodeEnv = "production"

NextQuotas ==
  \/ \E id \in Ids : Check("script", id)
  \/ Check("image", "ip1")
  \/ Tick /\ UNCHANGED event

SpecQuotas == InitQuotas /\ [][NextQuotas]_vars

\* ------------------------------------------------------------- a burst
\* Checks of one identity over three windows, in production, with sweeps.
\* probe is the list of its admissions no older than one window length,
\* each with its time and the end of the window that counted it.
MaxBurstTime == 2 * (WindowMs + 1)

InitBurst ==
  /\ now = 0
  /\ nodeEnv = "production"
  /\ maxRequests \in Ceilings(nodeEnv)
  /\ limits = [l \in Limiters |-> EmptyMap]
  /\ window = [l \in Limiters |-> [id \in Ids |-> NoWindow]]
  /\ lastCheck = NoCheck
  /\ useMockMode = TRUE
  /\ req = [r \in Slots |-> IdleRequest]
  /\ event = NoEvent
  /\ probe = <<>>

Within(t) == now - t <= WindowMs

BurstCheck ==
  /\ Checked("script", "ip1")
  /\ probe' = IF lastCheck'.result.allowed
              THEN Append(SelectSeq(probe, LAMBDA a : Within(a.at)),
                          [at |-> now, resetAt |-> lastCheck'.result.resetTime])
              ELSE probe
  /\ UNCHANGED <<now, config, req, event>>

NextBurst ==
  \/ BurstCheck
  \/ Sweep /\ UNCHANGED event
  \/ Elapse(MaxBurstTime) /\ UNCHANGED <<event, probe>>

SpecBurst == InitBurst /\ [][NextBurst]_vars

\* ------------------------------------------------------------ a scenario
\* The service in mock mode, every scene request being the Krishna scene
\* with no sceneType (the routes' default, "general").
InitKrishna == Init /\ useMockMode

NextKrishna ==
  \/ \E r \in Observed, id \in Clients :
       \/ ReceiveScene(r, "generate-script", id, KrishnaBody,
                       "general", "vibrant")
       \/ ReceiveScene(r, "complete-comic-panel", id, KrishnaBody,
                       "general", "vibrant")
  \/ \E r \in Observed : ResumeSafety(r, "clean")
  \/ \E r \in Observed : ResumeScriptMock(r)
  \/ \E r \in Observed : ResumeQuality(r, "valid")
  \/ \E r \in Observed : ResumeImage(r, "url")
  \/ ServiceSweep
  \/ ServiceTick

SpecKrishna == InitKrishna /\ [][NextKrishna]_vars

\* ---------------------------------------------------------------- client
\* Calls of AIClient.generateScript and AIClient.generateImage made one after
\* the other while the clock and the script quota move.  probe.last is the
\* latest call that returned, with the time and the state of the quota it
\* was made in; probe.pending is the call that waits for the provider.
NoCall == [op |-> "none", text |-> "", category |-> "", at |-> 0,
           quota |-> 0, threw |-> FALSE, script |-> NullScript,
           image |-> Undefined, calls |-> 0]

\* The call of the client that waits for the provider: the completion it
\* awaits (primary, fallback) or the image, and what the primary completion
\* did once the fallback is awaited.  One call is in flight at a time.
NoPending == [op |-> "none", text |-> "", category |-> "", at |-> 0,
              quota |-> 0, awaiting |-> "none", first |-> NoContent]

\* How much of the script quota of ip1 is used.
QuotaUsed ==
  IF "ip1" \in DOMAIN limits["script"] THEN limits["script"]["ip1"].count
  ELSE 0

\* Scene and style categories: declared ones, an unknown one, and one that
\* is the name of an inherited property.
SceneTypes == {"general", "action", "epic", "constructor"}
StyleTypes == {"vibrant", "earth", "neon", "constructor"}

InitClient ==
  /\ now = 0
  /\ nodeEnv = "production"
  /\ maxRequests = [l \in Limiters |-> 1]
  /\ limits = [l \in Limiters |-> EmptyMap]
  /\ window = [l \in Limiters |-> [id \in Ids |-> NoWindow]]
  /\ lastCheck = NoCheck
  /\ useMockMode \in BOOLEAN
  /\ req = [r \in Slots |-> IdleRequest]
  /\ event = NoEvent
  /\ probe = [last |-> NoCall, pending |-> NoPending]

\* The call has returned and is recorded.
Called(call) == probe' = [last |-> call, pending |-> NoPending]

\* The call is suspended at an await of the provider.
Suspended(op, text, category, awaiting) ==
  probe' = [probe EXCEPT
              !.pending = [op |-> op, text |-> text, category |-> category,
                           at |-> now, quota |-> QuotaUsed,
                           awaiting |-> awaiting, first |-> NoContent]]

\* aiClient.generateScript(scene, sceneType) is called: in mock mode it
\* returns within the turn, in live mode it awaits the primary completion.
ClientGenerateScript(scene, sceneType) ==
  /\ probe.pending.op = "none"
  /\ IF useMockMode
     THEN LET r == generateScript(TRUE, scene, sceneType, NoContent, NoContent)
          IN Called([op |-> "generateScript", text |-> scene,
                     category |-> sceneType, at |-> now,
                     quota |-> QuotaUsed, threw |-> r.threw,
                     script |-> r.script, image |-> Undefined,
                     calls |-> r.calls])
     ELSE Suspended("generateScript", scene, sceneType, "primary")
  /\ UNCHANGED <<now, config, limits, req, window, lastCheck, event>>

\* A completion settles: generateScript goes on to the fallback model, or
\* returns or throws.
ResumeClientScript(outcome) ==
  /\ probe.pending.awaiting \in {"primary", "fallback"}
  /\ LET p == probe.pending
     IN IF p.awaiting = "primary" /\ PrimaryAttempt(outcome).then = "fallback"
        THEN probe' = [probe EXCEPT !.pending.awaiting = "fallback",
                                    !.pending.first = outcome]
        ELSE LET first == IF p.awaiting = "primary" THEN outcome ELSE p.first
                 r == generateScript(FALSE, p.text, p.category, first, outcome)
             IN Called([op |-> "generateScript", text |-> p.text,
                        category |-> p.category, at |-> p.at,
                        quota |-> p.quota, threw |-> r.threw,
                        script |-> r.script, image |-> Undefined,
                        calls |-> r.calls])
  /\ UNCHANGED <<now, config, limits, req, window, lastCheck, event>>

\* aiClient.generateImage(prompt, styleType) is called: in mock mode it
\* returns within the turn, in live mode it awaits images.generate.
ClientGenerateImage(prompt, styleType) ==
  /\ probe.pending.op = "none"
  /\ IF useMockMode
     THEN LET r == generateImage(TRUE, prompt, styleType, "url")
          IN Called([op |-> "generateImage", text |-> prompt,
                     category |-> styleType, at |-> now,
                     quota |-> QuotaUsed, threw |-> r.threw,
                     script |-> NullScript, image |-> r.image,
                     calls |-> r.calls])
     ELSE Suspended("generateImage", prompt, styleType, "image")
  /\ UNCHANGED <<now, config, limits, req, window, lastCheck, event>>

\* images.generate settles: generateImage returns or throws.
ResumeClientImage(outcome) ==
  /\ probe.pending.awaiting = "image"
  /\ LET p == probe.pending
         r == generateImage(FALSE, p.text, p.category, outcome)
     IN Called([op |-> "generateImage", text |-> p.text,
                category |-> p.category, at |-> p.at,
                quota |-> p.quota, threw |-> r.threw,
                script |-> NullScript, image |-> r.image, calls |-> r.calls])
  /\ UNCHANGED <<now, config, limits, req, window, lastCheck, event>>

\* scriptRateLimiter.isAllowed('ip1') by some request, between two calls of
\* the client.
UseQuota ==
  /\ limits' = [limits EXCEPT
                  !["script"] = isAllowed(@, maxRequests["script"], "ip1",
                                          now).limits]
  /\ UNCHANGED <<now, config, req, window, lastCheck, event, probe>>

\* What a completion of the provider does when the client awaits it.
ClientCompletions ==
  {Failure(TRUE, FALSE), Failure(FALSE, FALSE), NoContent, Parsed(GoodScript),
   Parsed(NullScript)}

NextClient ==
  \/ \E scene \in ClientScenes, sceneType \in SceneTypes :
       ClientGenerateScript(scene, sceneType)
  \/ \E outcome \in ClientCompletions : ResumeClientScript(outcome)
  \/ \E prompt \in ClientPrompts, styleType \in StyleTypes :
       ClientGenerateImage(prompt, styleType)
  \/ \E outcome \in ImageOutcomes : ResumeClientImage(outcome)
  \/ UseQuota
  \/ Elapse(MaxClientTime) /\ UNCHANGED <<event, probe>>

SpecClient == InitClient /\ [][NextClient]_vars

\* ------------------------------------------------- claims on the limiter
\* C1: once `ceiling` checks of an identity have been admitted inside one
\* window, every further check of it made while that window is open
\* (now <= resetAt) is denied: no window ever counts more than `ceiling`
\* admissions, and a check that finds the open window full is refused.
C1_FullWindowDenies ==
  /\ \A l \in Limiters, id \in Ids : window[l][id].admitted <= maxRequests[l]
  /\ (/\ lastCheck.limiter \in Limiters
      /\ lastCheck.before.count >= maxRequests[lastCheck.limiter]
      /\ lastCheck.at <= lastCheck.before.resetTime)
     => ~lastCheck.result.allowed

\* C1 witness: a full window that is still open at its last instant and has
\* refused ExtraChecks further checks.
C1_Witness ==
  \E id \in Ids :
    /\ window["script"][id].admitted = maxRequests["script"]
    /\ window["script"][id].checks = maxRequests["script"] + ExtraChecks
    /\ now = window["script"][id].resetAt
    /\ lastCheck.id = id /\ lastCheck.at = now /\ ~lastCheck.result.allowed

\* Did the latest check find no entry, or an entry whose resetAt had passed?
LastCheckRestarts ==
  /\ lastCheck.limiter \in Limiters
  /\ (lastCheck.before = NoEntry \/ lastCheck.at > lastCheck.before.resetTime)

\* C2: the first check of an identity, and the first one after its resetAt
\* has passed, is allowed and restarts the window: count 1, resetAt =
\* now + windowLength, remaining = ceiling - 1, whatever the previous window
\* held.
C2_RestartAllowed ==
  LastCheckRestarts =>
    /\ lastCheck.result = [allowed |-> TRUE,
                           remaining |-> maxRequests[lastCheck.limiter] - 1,
                           resetTime |-> lastCheck.at + WindowMs]
    /\ lastCheck.after = [count |-> 1, resetTime |-> lastCheck.at + WindowMs]

\* C2 witness: a check after the resetAt of a window that was full.
C2_Witness ==
  /\ LastCheckRestarts
  /\ lastCheck.before.count = maxRequests[lastCheck.limiter]
  /\ lastCheck.at > lastCheck.before.resetTime
  /\ lastCheck.after.count = 1

\* C3: a denied check returns allowed=false, remaining=0 and the entry's
\* resetAt, and changes no entry of any limiter.
C3_DeniedChangesNothing ==
  [][(lastCheck'.seq # lastCheck.seq /\ ~lastCheck'.result.allowed) =>
       /\ limits' = limits
       /\ lastCheck'.before # NoEntry
       /\ lastCheck'.after = lastCheck'.before
       /\ lastCheck'.result.remaining = 0
       /\ lastCheck'.result.resetTime = lastCheck'.before.resetTime]_vars

\* C3 witness: the second denial in a row inside one window, whose end has
\* not moved.
C3_Witness ==
  \E id \in Ids :
    /\ lastCheck.id = id /\ ~lastCheck.result.allowed
    /\ window["script"][id].checks >= maxRequests["script"] + 2
    /\ lastCheck.result.resetTime = window["script"][id].resetAt
    /\ "script" \in DOMAIN limits /\ id \in DOMAIN limits["script"]
    /\ limits["script"][id].resetTime = window["script"][id].resetAt

\* ---------------------------------------------- claims on the validators
NonEmptyString(v) == v.type = "string" /\ v.chars # ""

\* A string with a character that is not white space.
HasVisibleText(v) ==
  v.type = "string" /\ \E i \in 1..Len(v.chars) : ~IsSpace(CharAt(v.chars, i))

\* C10 as stated: structural validation accepts a script exactly when its
\* narration and its visual description are non-empty strings, whatever the
\* dialogue field is (present, absent or empty).
C10_AsStated ==
  probe.done =>
    (probe.structure <=>
       /\ ~probe.script.isNull
       /\ NonEmptyString(probe.script.narrator_caption)
       /\ NonEmptyString(probe.script.image_description))

\* C10 amended: validateScriptStructure accepts a script exactly when its
\* narration and its visual description are non-empty strings and its
\* dialogue is a string, empty or not; the check of complete-comic-panel
\* rejects, beyond those, a narration or a visual description made of
\* whitespace only.
C10_DialogueMustBeString ==
  probe.done =>
    /\ probe.structure <=>
         /\ ~probe.script.isNull
         /\ NonEmptyString(probe.script.narrator_caption)
         /\ NonEmptyString(probe.script.image_description)
         /\ probe.script.dialogue.type = "string"
    /\ ~probe.routeRejects <=>
         /\ ~probe.script.isNull
         /\ HasVisibleText(probe.script.narrator_caption)
         /\ HasVisibleText(probe.script.image_description)
         /\ probe.script.dialogue.type = "string"

\* C10 witness: narration and visual description are text, the dialogue
\* property is absent, and the script is rejected.
C10_Witness ==
  /\ probe.done
  /\ probe.script = Script(Str("a"), Undefined, Str("a"))
  /\ ~probe.structure
  /\ probe.routeRejects

\* ------------------------------------------------ claims on the service
\* The routes that take a scene.
SceneRoutes == {"generate-script", "complete-comic-panel"}

Min(a, b) == IF a <= b THEN a ELSE b

\* C4: whatever the order in which concurrent requests of one identity are
\* suspended and resumed, after n checks inside one window exactly
\* min(n, ceiling) were admitted and the stored count is min(n, ceiling).
C4_AtomicCheckAndIncrement ==
  \A l \in Limiters, id \in Ids :
    WindowOpen(window[l][id], now) =>
      /\ window[l][id].admitted = Min(window[l][id].checks, maxRequests[l])
      /\ id \in DOMAIN limits[l]
      /\ limits[l][id].count = Min(window[l][id].checks, maxRequests[l])
      /\ limits[l][id].resetTime = window[l][id].resetAt

\* C4 witness: two requests of one identity are suspended at once, in a
\* window that has seen more checks than the ceiling.
C4_Witness ==
  \E r, q \in Slots, id \in Ids, l \in Limiters :
    /\ r # q
    /\ req[r].pc # "idle" /\ req[r].id = id
    /\ req[q].pc # "idle" /\ req[q].id = id
    /\ WindowOpen(window[l][id], now)
    /\ window[l][id].checks > maxRequests[l]

\* The words of a text: the runs of characters other than white space.
WordsIn(text) ==
  Cardinality({i \in 1..Len(text) :
                 /\ ~IsSpace(CharAt(text, i))
                 /\ (i = 1 \/ IsSpace(CharAt(text, i - 1)))})

\* The words of the scenes the requests carry, computed once.
SceneWords ==
  Tabulated([text \in {body.text : body \in SceneBodies} |-> WordsIn(text)])

\* A scene that is empty or whose word count lies outside 3..20.
InvalidScene(body) ==
  \/ ~body.present
  \/ (IF body.text \in DOMAIN SceneWords THEN SceneWords[body.text]
      ELSE WordsIn(body.text)) \notin 3..20

\* C5: a request whose scene is empty or has fewer than 3 or more than 20
\* words ends at once with a 400 validation error; the step changes no
\* quota entry, checks no safety and calls no provider, and its response is
\* neither the rate-limit nor the generation-failed one.
C5_InvalidSceneRejectedFirst ==
  [][(/\ event'.step = "receive"
      /\ event'.request.route \in SceneRoutes
      /\ InvalidScene(event'.body)) =>
       /\ limits' = limits
       /\ event'.request.pc = "done"
       /\ event'.response \in {Rejected(400, ErrSceneRequired),
                               Rejected(400, ErrWordCount)}
       /\ event'.request.did = {}
       /\ event'.request.calls = <<>>
       /\ \A r \in Observed : req'[r] = IdleRequest]_vars

\* C5 witness: a scene of more than 20 words is rejected for its word count
\* while the identity's script window is full.
C5_Witness ==
  /\ event.step = "receive"
  /\ event.request.route \in SceneRoutes
  /\ event.body.present /\ WordsIn(event.body.text) > 20
  /\ event.response = Rejected(400, ErrWordCount)
  /\ WindowOpen(window["script"][event.request.id], now)
  /\ window["script"][event.request.id].checks > maxRequests["script"]

\* The step was a scene request that reached the script limiter and was the
\* (ceiling+1)-th or a later check of its window.
BeyondCeiling ==
  /\ event.step = "receive"
  /\ event.request.route \in SceneRoutes
  /\ ~InvalidScene(event.body)
  /\ window["script"][event.request.id].checks > maxRequests["script"]

\* C6 as stated: the (ceiling+1)-th script request of a window is answered
\* 429, the refused admission reports remaining = 0, and the resetAt of the
\* response is strictly greater than the time of the request.
C6_AsStated ==
  BeyondCeiling =>
    /\ event.response.status = 429
    /\ event.denial.remaining = 0
    /\ event.response.resetTime > event.denial.at

\* C6 amended: the (ceiling+1)-th script request of a window is answered
\* 429, the refused admission reports remaining = 0, and the resetAt of the
\* response is the end of the window, which is never before the time of the
\* request and equals it for a request made at the instant resetAt.
C6_ResetAtNotBeforeRequest ==
  BeyondCeiling =>
    /\ event.request.pc = "done"
    /\ event.response.status = 429
    /\ event.response.error \in {ErrRateLimit, ErrScriptRateLimit}
    /\ event.denial.remaining = 0
    /\ event.denial.at = now
    /\ event.response.resetTime = window["script"][event.request.id].resetAt
    /\ event.response.resetTime >= event.denial.at

\* C6 witness: a script request made at the instant resetAt of a full window
\* is refused with resetAt equal to the time of the request.
C6_Witness ==
  /\ BeyondCeiling
  /\ event.response.status = 429
  /\ event.response.resetTime = event.denial.at

\* What the moderation call did was a fault of the safety check.
SafetyFault(outcome) == outcome \in {"throws", "no_results"}

\* C7: when the safety check faults, the request is not rejected: the scene
\* counts as safe and the handler goes on to generate the script (the image,
\* in generate-image).
C7_SafetyFaultFailsOpen ==
  (event.step = "safety" /\ SafetyFault(event.moderation)) =>
    /\ event.response = NoResponse
    /\ event.request.pc =
         (IF event.request.route \in SceneRoutes THEN "script" ELSE "image")
    /\ (IF event.request.route \in SceneRoutes THEN "generateScript"
        ELSE "generateImage") \in event.request.did
    /\ \A r \in Observed : req[r] = event.request

\* C7 witness: the moderation call of a complete-comic-panel request throws
\* and the request is waiting for its script.
C7_Witness ==
  /\ event.step = "safety"
  /\ event.moderation = "throws"
  /\ event.request.route = "complete-comic-panel"
  /\ event.request.pc = "script"
  /\ event.request.calls = <<"moderation", "primary">>

\* C8: when the safety check reports the scene unsafe, the request ends with
\* the 400 of unsafe content, and no script generation, quality evaluation,
\* image-quota check or image generation has run or will run for it.
C8_UnsafeSceneEndsRequest ==
  [][(/\ event'.step = "safety"
      /\ event'.moderation = "unsafe"
      /\ event'.request.route \in SceneRoutes) =>
       /\ event'.request.pc = "done"
       /\ event'.response = Rejected(400, ErrUnsafeScene)
       /\ event'.request.did = {"scriptQuota", "checkContentSafety"}
       /\ event'.request.calls = <<"moderation">>
       /\ limits' = limits
       /\ \A r \in Observed : req'[r] = IdleRequest]_vars

\* C8 witness: the scene of a complete-comic-panel request is reported
\* unsafe and the request has ended with the 400.
C8_Witness ==
  /\ event.step = "safety"
  /\ event.moderation = "unsafe"
  /\ event.request.route = "complete-comic-panel"
  /\ event.response.status = 400
  /\ \A r \in Observed : req[r] = IdleRequest

Occurrences(calls, name) == Cardinality({i \in DOMAIN calls : calls[i] = name})

\* The provider rejected the call as model-not-found.
RejectedAsModelNotFound(outcome) ==
  outcome.kind = "error" /\ (outcome.code \/ outcome.message)

\* The completion gave a script with its three string fields, narration and
\* visual description not empty.
GaveScript(outcome) ==
  /\ outcome.kind = "json"
  /\ ~outcome.script.isNull
  /\ NonEmptyString(outcome.script.narrator_caption)
  /\ NonEmptyString(outcome.script.image_description)
  /\ outcome.script.dialogue.type = "string"

\* The request has ended as generation failed.
GenerationFailed(e) ==
  e.request.pc = "done" /\ e.response = Rejected(500, ErrScriptFailed)

\* C9: in live mode a request calls the completion provider at most once
\* with the primary and at most once with the fallback model; the fallback
\* is called exactly when the primary call was rejected as model-not-found;
\* any other failure of the primary call (transport error, empty content,
\* unparsable or structurally invalid output), and any failure of the
\* fallback call, ends the request as generation failed with no further call.
C9_OneFallbackOnModelNotFound ==
  ~useMockMode =>
    /\ \A r \in Slots : /\ Occurrences(req[r].calls, "primary") <= 1
                        /\ Occurrences(req[r].calls, "fallback") <= 1
    /\ event.step = "script" =>
         /\ Occurrences(event.request.calls, "primary") = 1
         /\ Occurrences(event.request.calls, "fallback") =
              (IF RejectedAsModelNotFound(event.completion) THEN 1 ELSE 0)
         /\ RejectedAsModelNotFound(event.completion) =>
              (event.request.pc = "fallback" /\ event.response = NoResponse)
         /\ (/\ ~RejectedAsModelNotFound(event.completion)
             /\ ~GaveScript(event.completion)) =>
              (/\ GenerationFailed(event)
               /\ event.request.calls = <<"moderation", "primary">>)
    /\ event.step = "fallback" =>
         /\ Occurrences(event.request.calls, "primary") = 1
         /\ Occurrences(event.request.calls, "fallback") = 1
         /\ ~GaveScript(event.completion) =>
              (/\ GenerationFailed(event)
               /\ event.request.calls = <<"moderation", "primary", "fallback">>)

\* The completion was a payload that fails structural validation.
MalformedPayload(outcome) == outcome.kind = "json" /\ ~GaveScript(outcome)

\* C11: when a live provider returns a payload that fails structural
\* validation, the request is rejected with an error other than the one of a
\* generation failure caused by an upstream or transport fault.
C11_InvalidStructureDistinct ==
  (/\ ~useMockMode
   /\ event.step \in {"script", "fallback"}
   /\ MalformedPayload(event.completion)) =>
    /\ event.request.pc = "done"
    /\ event.response.status >= 400
    /\ ~GenerationFailed(event)

\* ------------------------------------------------- claims on mock mode
\* C12: in mock mode every call of generateScript returns a structurally
\* valid script and every call of generateImage returns a non-empty image
\* reference, whatever the text and the scene or style category; neither
\* call fails and neither calls the provider.
C12_MockAlwaysProduces ==
  (useMockMode /\ probe.last.op # "none") =>
    /\ ~probe.last.threw
    /\ probe.last.calls = 0
    /\ probe.last.op = "generateScript" =>
         validateScriptStructure(probe.last.script)
    /\ probe.last.op = "generateImage" =>
         /\ probe.last.image.type = "string"
         /\ Len(probe.last.image.chars) > 0

\* C14: in mock mode the scene "Krishna lifts the mountain to protect
\* villagers", sent with no scene category, gets the Krishna/Govardhan
\* script although it holds the trigger word 'mountain', and the combined
\* pipeline ends in success unless one of the two quotas refuses the request.
C14_KrishnaSceneGetsGovardhan ==
  /\ (event.request.script # NullScript \/ event.step \in {"script", "quality", "image"})
       => event.request.script = KrishnaGovardhanScript
  /\ (event.request.pc = "done" /\ event.response.status # 429)
       => event.step \in {"quality", "image"} /\ event.response = Success
  /\ (event.request.pc = "done" /\ event.response.status = 429)
       => event.step \in {"receive", "quality"}

C14_Witness ==
  /\ event.step = "image"
  /\ event.request.route = "complete-comic-panel"
  /\ event.request.script = KrishnaGovardhanScript
  /\ {"scriptQuota", "imageQuota", "generateImage"} \subseteq event.request.did
  /\ event.request.calls = <<>>
  /\ event.response = Success

\* C15: the quality evaluator is advisory: whatever it reports (a valid
\* verdict, an invalid one that the route logs, a null one whose TypeError
\* the route catches, or a fault turned into the fail-safe verdict), the step
\* that follows it has the outcome the request and the quota alone decide:
\* generate-script answers 200; complete-comic-panel goes on to the image
\* when the image limiter admits it and answers the image limiter's 429 when
\* the image window is full.
C15_QualityAdvisory ==
  event.step = "quality" =>
    LET q == event.request
    IN /\ event.quality \in {"passed", "warned", "caught"}
       /\ q.route = "generate-script" => event.response = Success
       /\ q.route = "complete-comic-panel" =>
            \/ /\ q.pc = "image"
               /\ event.response = NoResponse
               /\ "imageQuota" \in q.did
            \/ /\ q.pc = "done"
               /\ event.response.status = 429
               /\ event.response.error = ErrImageRateLimit
               /\ window["image"][q.id].admitted = maxRequests["image"]

C15_Witness ==
  /\ event.step = "quality"
  /\ event.quality = "caught"
  /\ event.request.route = "complete-comic-panel"
  /\ event.request.pc = "image"
  /\ "validateQuality" \in event.request.did

\* The errorType that names the stage the failed step belongs to.
StageErrorType(e) ==
  IF e.step \in {"script", "fallback"} THEN "script_generation_error"
  ELSE IF e.step = "image" THEN "image_generation_error"
  ELSE "general_error"

\* C16: when a complete-comic-panel request fails, the errorType the API
\* client reports names the stage that failed: script_generation_error for a
\* failure of script generation, image_generation_error for a failure of
\* image generation, general_error for every other failure.
C16_ErrorTypeNamesStage ==
  (/\ event.request.route = "complete-comic-panel"
   /\ event.request.pc = "done"
   /\ event.response.status >= 400) =>
    errorType(event.response.error) = StageErrorType(event)

\* ------------------------------------------------- claims on the reset
\* The step is a reset request.
ResetTaken == event'.step = "reset" /\ event' # event

\* The step is the first check of an identity since a reset that succeeded.
FirstCheckSinceReset ==
  /\ event.step = "reset" /\ event.response.status = 200
  /\ lastCheck' # lastCheck
  /\ window[lastCheck'.limiter][lastCheck'.id] = NoWindow

Cleared == \A l \in Limiters : limits'[l] = EmptyMap

FirstCheckAdmitted ==
  /\ lastCheck'.result.allowed
  /\ lastCheck'.result.remaining = maxRequests[lastCheck'.limiter] - 1

\* C17 as stated: the reset succeeds in every profile other than production
\* and is refused in production.
C17_AsStated ==
  [][/\ ResetTaken =>
          IF nodeEnv # "production"
          THEN event'.response.status = 200 /\ Cleared
          ELSE event'.response.status = 403 /\ limits' = limits
     /\ FirstCheckSinceReset => FirstCheckAdmitted]_vars

\* C17, amended: the reset succeeds in the development profile only; there
\* it clears every entry of both limiters, so that the next check of any
\* identity is admitted with remaining = ceiling - 1.  In every other
\* profile (production, test) it is refused with 403 and leaves all quota
\* state unchanged.
C17_ResetOnlyInDevelopment ==
  [][/\ ResetTaken =>
          IF nodeEnv = "development"
          THEN event'.response.status = 200 /\ Cleared
          ELSE event'.response.status = 403 /\ limits' = limits
     /\ FirstCheckSinceReset => FirstCheckAdmitted]_vars

C17_Witness ==
  /\ nodeEnv = "development"
  /\ event.step = "reset"
  /\ event.response.status = 200
  /\ \A l \in Limiters : limits[l] = EmptyMap
  /\ lastCheck.limiter \in Limiters
  /\ lastCheck.at = now
  /\ lastCheck.after.count = maxRequests[lastCheck.limiter]
  /\ ~lastCheck.result.allowed

\* ------------------------------------------------- claims on the sweep
\* The entries of a limiter whose window is still open.
OpenEntries(l) == {k \in DOMAIN limits[l] : now <= limits[l][k].resetTime}

\* C18: whenever the sweep runs it deletes every entry whose resetAt has
\* passed and nothing else, an entry whose window is open keeping count and
\* resetAt; and with sweeps between the checks no window ever counts more
\* than `ceiling` admissions.
C18_SweepDeletesExpiredOnly ==
  /\ \A l \in Limiters :
       cleanup(limits[l], now) = [k \in OpenEntries(l) |-> limits[l][k]]
  /\ \A l \in Limiters, id \in Ids : window[l][id].admitted <= maxRequests[l]

\* In production (no reset) the entry of the identity last checked is gone,
\* swept after its window closed, and the open entry of another identity is
\* still there, full.
C18_Witness ==
  /\ nodeEnv = "production"
  /\ lastCheck.limiter = "script"
  /\ lastCheck.id = "ip1"
  /\ lastCheck.after.count >= 1
  /\ now > lastCheck.after.resetTime
  /\ "ip1" \notin DOMAIN limits["script"]
  /\ "ip2" \in OpenEntries("script")
  /\ limits["script"]["ip2"].count = maxRequests["script"]
  /\ window["script"]["ip2"].admitted = maxRequests["script"]

\* --------------------------------------------- claims on the two quotas
\* The step is a check of a limiter.
CheckStep == lastCheck' # lastCheck

\* The step leaves what limiter l holds for the identity as it was.
Untouched(l, id) ==
  /\ (id \in DOMAIN limits'[l]) = (id \in DOMAIN limits[l])
  /\ id \in DOMAIN limits[l] => limits'[l][id] = limits[l][id]

\* Limiter l holds a full, open window for the identity.
Full(l, id) ==
  /\ id \in DOMAIN limits[l]
  /\ limits[l][id].count >= maxRequests[l]
  /\ now <= limits[l][id].resetTime

\* C19: the script and the image quota are independent, and so are the
\* identities: a check changes at most the entry of the identity checked in
\* the limiter checked, and it is denied exactly when that very entry is
\* full, whatever the other limiter and the other identities have used.
C19_QuotasIndependent ==
  [][CheckStep =>
       /\ \A l \in Limiters, id \in Ids :
            (l # lastCheck'.limiter \/ id # lastCheck'.id) => Untouched(l, id)
       /\ ~lastCheck'.result.allowed <=>
            Full(lastCheck'.limiter, lastCheck'.id)]_vars

\* The script quota of ip1 is exhausted, that of ip2 is not, and the image
\* check of ip1 just made was admitted.
C19_Witness ==
  /\ Full("script", "ip1")
  /\ "ip2" \in DOMAIN limits["script"]
  /\ ~Full("script", "ip2")
  /\ lastCheck.limiter = "image"
  /\ lastCheck.id = "ip1"
  /\ lastCheck.at = now
  /\ lastCheck.result.allowed
  /\ window["script"]["ip1"].checks > maxRequests["script"]

\* -------------------------------------------------- claims on the burst
\* The admissions of the identity in the interval of one window length that
\* ends now.
Recent == SelectSeq(probe, LAMBDA a : Within(a.at))

\* C20: with no administrative reset, the admissions of one identity in any
\* interval no longer than one window length number at most 2 x ceiling, and
\* they number more than the ceiling only when they were counted by two
\* windows, the interval straddling the boundary between them; one window
\* counts at most `ceiling` of them.
C20_AtMostTwiceCeiling ==
  LET c == maxRequests["script"]
      ends == {Recent[i].resetAt : i \in 1..Len(Recent)}
  IN /\ Len(Recent) <= 2 * c
     /\ Len(Recent) > c => Cardinality(ends) = 2
     /\ \A e \in ends :
          Cardinality({i \in 1..Len(Recent) : Recent[i].resetAt = e}) <= c

\* More than `ceiling` admissions in an interval of one window length, late
\* in the run: all but the first of one window and all of the next.
C20_Witness ==
  /\ maxRequests["script"] > 1
  /\ Len(Recent) = 2 * maxRequests["script"] - 1
  /\ Recent[1].at >= WindowMs + 1
  /\ Recent[1].resetAt # Recent[Len(Recent)].resetAt
  /\ Recent[Len(Recent)].at = now

\* -------------------------------------- a request and a silent provider
\* What the process does for a suspended request with no help from outside:
\* in mock mode every promise a handler awaits is settled by the client's
\* own code (no call leaves the process).  In live mode each await is on a
\* call of the OpenAI client, made with no timeout option and raced against
\* no timer: generation.timeoutMs of the configuration is read nowhere, so
\* only the provider's answer resumes the handler.
Settle ==
  /\ useMockMode
  /\ \E r \in Observed :
       \/ ResumeSafety(r, "clean")
       \/ ResumeScriptMock(r)
       \/ ResumeQuality(r, "valid")
       \/ ResumeImage(r, "url")

\* One request at a time on any of the three routes; in live mode the
\* provider answers each call in any of its ways, whenever it does.
NextPending ==
  \/ \E r \in Observed :
       \/ ReceiveScene(r, "generate-script", "ip1", KrishnaBody,
                       "general", "vibrant")
       \/ ReceiveScene(r, "complete-comic-panel", "ip1", KrishnaBody,
                       "general", "vibrant")
  \/ \E r \in Observed, body \in DescriptionBodies :
       ReceiveDescription(r, "ip1", body, "vibrant")
  \/ \E r \in Observed :
       \E outcome \in IF useMockMode THEN {"clean"} ELSE ModerationOutcomes :
         ResumeSafety(r, outcome)
  \/ \E r \in Observed : ResumeScriptMock(r)
  \/ \E r \in Observed, outcome \in CompletionOutcomes : ResumeScript(r, outcome)
  \/ \E r \in Observed, outcome \in CompletionOutcomes : ResumeFallback(r, outcome)
  \/ \E r \in Observed :
       \E outcome \in IF useMockMode THEN {"valid"} ELSE QualityOutcomes :
         ResumeQuality(r, outcome)
  \/ \E r \in Observed :
       \E outcome \in IF useMockMode THEN {"url"} ELSE ImageOutcomes :
         ResumeImage(r, outcome)
  \/ ServiceTick

\* The event loop runs every continuation that is ready, and the clock
\* runs; nothing makes the provider answer.
SpecPending ==
  Init /\ [][NextPending]_vars /\ WF_vars(Settle) /\ WF_vars(ServiceTick)

\* C21: every request ends, with its result or with a rejection: a request
\* a handler has taken up is eventually answered, the slot free again, also
\* when the provider never answers a call (the call being given up after the
\* configured timeout).
C21_EveryRequestEnds ==
  \A r \in Observed : [](req[r].pc # "idle" => <>(req[r].pc = "idle"))

\* ------------------------------------------- the rule-based safety check
\* \b between the characters i and i + 1 of s
WordBoundary(s, i) == IsWordChar(CharAt(s, i)) # IsWordChar(CharAt(s, i + 1))

\* /\b(w1|w2|...)\b/i.test(content)
test(words, content) ==
  LET lowered == lower(content)
  IN \E i \in 1..Len(content) :
       /\ WordBoundary(content, i - 1)
       /\ \E w \in words :
            /\ i + Len(w) - 1 <= Len(content)
            /\ SubSeq(lowered, i, i + Len(w) - 1) = w
            /\ WordBoundary(content, i + Len(w) - 1)

\* Object.entries(INAPPROPRIATE_PATTERNS), the patterns of each category in
\* the order of the two loops.
INAPPROPRIATE_PATTERNS ==
  <<[category |-> "violence",
     words |-> {"kill", "murder", "death", "blood", "gore", "torture", "pain",
                "suffering"}],
    [category |-> "violence",
     words |-> {"war", "battle", "fight", "attack", "destroy", "crush",
                "smash", "burn"}],
    [category |-> "sexual",
     words |-> {"sex", "sexual", "nude", "naked", "intimate", "romance",
                "love", "kiss"}],
    [category |-> "hate",
     words |-> {"hate", "racist", "discriminate", "insult", "curse", "swear"}],
    [category |-> "inappropriate",
     words |-> {"drug", "alcohol", "smoke", "drunk", "high"}]>>

\* checkMythologicalRelevance
checkMythologicalRelevance(content) ==
  \E keyword \in {"krishna", "rama", "hanuman", "shiva", "durga", "ganesha",
                  "mahabharata", "ramayana", "bhagavad gita", "vedas",
                  "upanishads", "temple", "ashram", "guru", "yoga",
                  "meditation", "dharma", "karma", "moksha", "bhakti", "deva",
                  "asura", "avatar"} :
    includes(content, keyword)

\* content.split(/\s+/).length: one more than the runs of white space.
splitLength(content) ==
  1 + Cardinality({i \in 1..Len(content) :
                     IsSpace(CharAt(content, i)) /\ ~IsSpace(CharAt(content, i - 1))})

\* The issue and the suggestion pushed for a pattern that matched.
PatternIssue(p) == "Contains " \o p.category \o " content"

PatternSuggestion(p) ==
  CASE p.category = "violence" ->
         "Consider using more peaceful language or focusing on the spiritual aspects"
    [] p.category = "sexual" ->
         "Focus on the divine and spiritual aspects of the story"
    [] p.category = "hate" -> "Use respectful and inclusive language"
    [] p.category = "inappropriate" ->
         "Keep content family-friendly and appropriate"

Map(f(_), s) == [i \in 1..Len(s) |-> f(s[i])]

\* checkContentSafety of the content-safety module (the rule-based check;
\* AIClient.checkContentSafety above is the moderation call).
contentSafety(content) ==
  LET matched == SelectSeq(INAPPROPRIATE_PATTERNS,
                           LAMBDA p : test(p.words, content))
      count == splitLength(content)
      short == count < 3
      long == ~short /\ count > 50
      relevant == checkMythologicalRelevance(lower(content))
      score == 100 - 20 * Len(matched)
                   - (IF short THEN 10 ELSE IF long THEN 15 ELSE 0)
                   - (IF relevant THEN 0 ELSE 25)
  IN [safe |-> score >= 70,
      flagged |-> Len(matched) > 0,
      categories |-> [c \in {"violence", "sexual", "hate", "inappropriate"} |->
                       includes(lower(content), c)],
      score |-> IF score < 0 THEN 0 ELSE score,
      issues |-> Map(PatternIssue, matched)
                 \o (IF short THEN <<"Content too short">>
                     ELSE IF long THEN <<"Content too long">> ELSE <<>>)
                 \o (IF relevant THEN <<>>
                     ELSE <<"Content lacks mythological elements">>),
      suggestions |-> Map(PatternSuggestion, matched)
                 \o (IF short
                     THEN <<"Provide more descriptive content for better results">>
                     ELSE IF long
                     THEN <<"Keep descriptions concise and focused">> ELSE <<>>)
                 \o (IF relevant THEN <<>>
                     ELSE <<"Include references to Indian mythology, characters, or concepts">>)]

\* ---------------------------------------------- the safety check, alone
\* The longest content, in words, next to the long one.
MaxContentWords == 3

\* The words contents are made of: the name of a deity, neutral words, words
\* of four patterns, and a word that holds a trigger word inside it.
SafetyWords == {"Krishna", "dances", "kill", "war", "love", "skill"}

\* The phrases appended to a content: each matches a pattern.
UnsafePhrases == {"kill", "in battle", "kiss", "Hate", "drunk"}

RECURSIVE Join(_)
Join(ws) ==
  IF Len(ws) = 0 THEN ""
  ELSE IF Len(ws) = 1 THEN ws[1]
  ELSE ws[1] \o " " \o Join(Tail(ws))

\* Forty-eight words, so that a few more pass the fifty of 'too long'.
LongContent ==
  Join([i \in 1..48 |-> IF i = 1 THEN "Rama" ELSE "a"])

SafetyContents ==
  {Join(ws) : ws \in UNION {[1..n -> SafetyWords] : n \in 0..MaxContentWords}}
    \cup {LongContent \o " " \o Join(ws) :
            ws \in UNION {[1..n -> SafetyWords] : n \in 1..2}}
    \cup {"Krishna\fdances" \o VerticalTab \o "now",
          "a" \o VerticalTab \o "b c", "\f" \o VerticalTab}

NoSafety == [safe |-> FALSE, score |-> -1, issues |-> <<>>, suggestions |-> <<>>]

InitSafety ==
  /\ now = 0
  /\ nodeEnv = "production"
  /\ maxRequests = [l \in Limiters |-> 1]
  /\ limits = [l \in Limiters |-> EmptyMap]
  /\ window = [l \in Limiters |-> [id \in Ids |-> NoWindow]]
  /\ lastCheck = NoCheck
  /\ useMockMode = FALSE
  /\ req = [r \in Slots |-> IdleRequest]
  /\ event = NoEvent
  /\ \E c \in SafetyContents, p \in UnsafePhrases :
       probe = [content |-> c, phrase |-> p, done |-> FALSE,
                safety |-> NoSafety, appended |-> NoSafety]

\* What the check returns that the claims read.
Verdict(content) ==
  LET r == contentSafety(content)
  IN [safe |-> r.safe, score |-> r.score, issues |-> r.issues,
      suggestions |-> r.suggestions]

\* The check of the content, and of the content with the phrase appended.
EvaluateSafety ==
  /\ ~probe.done
  /\ probe' = [probe EXCEPT
                 !.done = TRUE,
                 !.safety = Verdict(probe.content),
                 !.appended = Verdict(probe.content \o " " \o probe.phrase)]
  /\ UNCHANGED <<now, config, limits, req, window, lastCheck, event>>

NextSafety == EvaluateSafety

SpecSafety == InitSafety /\ [][NextSafety]_vars

\* --------------------------------------------- claims on the safety check
\* C22: the safety check is monotonic: a content that passes (score >= 70)
\* gets no higher score when a phrase that matches a pattern of an unsafe
\* category is appended to it.
C22_SafetyMonotonic ==
  (/\ probe.done
   /\ probe.safety.safe
   /\ \E i \in DOMAIN INAPPROPRIATE_PATTERNS :
        test(INAPPROPRIATE_PATTERNS[i].words, probe.phrase))
  => probe.appended.score <= probe.safety.score

\* The categories some trigger word of which stands in the content as a
\* whole word.
MatchedCategories(content) ==
  {INAPPROPRIATE_PATTERNS[i].category :
     i \in {j \in DOMAIN INAPPROPRIATE_PATTERNS :
              test(INAPPROPRIATE_PATTERNS[j].words, content)}}

\* Neither deduction for the length of the content nor the one for the lack
\* of any mythological keyword applies.
NoOtherPenalty(content) ==
  /\ splitLength(content) >= 3
  /\ splitLength(content) <= 50
  /\ checkMythologicalRelevance(lower(content))

\* The verdict is the one of exactly 20 points off per matched category.
PerCategory(content, verdict) ==
  LET k == Cardinality(MatchedCategories(content))
  IN /\ verdict.safe <=> verdict.score >= 70
     /\ NoOtherPenalty(content) =>
          /\ verdict.score = (IF 100 - 20 * k < 0 THEN 0 ELSE 100 - 20 * k)
          /\ Len(verdict.issues) = k
          /\ Len(verdict.suggestions) = k

\* C24: unsafe content costs exactly 20 points per matched category
\* (violence, sexual, hate, inappropriate), one issue and one suggestion
\* being pushed per matched category: a content that matches k categories
\* and has no other deduction scores max(0, 100 - 20k), however many trigger
\* words of a category it holds; and safe is true iff the score is >= 70.
C24_TwentyPerCategory ==
  probe.done =>
    /\ PerCategory(probe.content, probe.safety)
    /\ PerCategory(probe.content \o " " \o probe.phrase, probe.appended)

\* ------------------------------------------ the rule-based quality check
\* keys.some(key => content.includes(key))
someIncluded(keys, content) == \E key \in keys : includes(content, key)

\* What a rule returns: Math.max(0, score) and the verdict on the score.
RuleResult(score, issues, suggestions) ==
  [passed |-> score >= 70, score |-> IF score < 0 THEN 0 ELSE score,
   issues |-> issues, suggestions |-> suggestions]

\* extractCharacterNames
extractCharacterNames(scene) ==
  SelectSeq(<<"krishna", "rama", "hanuman", "shiva", "durga", "ganesha",
              "arjuna", "sita", "lakshmana", "bharata", "radha", "parvati">>,
            LAMBDA keyword : includes(lower(scene), keyword))

\* checkCharacterAccuracy(character, script).accurate
checkCharacterAccuracy(character, script) ==
  ~(character = "krishna" /\ includes(script.image_description, "evil"))

\* The caption and the description in one lower-case string.
CaptionAndDescription(script) ==
  lower(script.narrator_caption \o " " \o script.image_description)

\* checkMythologicalElements
checkMythologicalElements(script) ==
  someIncluded({"divine", "sacred", "cosmic", "spiritual", "temple", "ashram",
                "guru", "yoga", "meditation", "dharma", "karma", "moksha"},
               CaptionAndDescription(script))

\* validateMythologicalAccuracy; checkCulturalContext finds no issue in any
\* script.
validateMythologicalAccuracy(script, scene) ==
  LET inaccurate == SelectSeq(extractCharacterNames(scene),
                              LAMBDA c : ~checkCharacterAccuracy(c, script))
      elements == checkMythologicalElements(script)
  IN RuleResult(
       100 - 15 * Len(inaccurate) - (IF elements THEN 0 ELSE 20),
       [i \in 1..Len(inaccurate) |-> "Krishna should not be portrayed as evil"]
         \o (IF elements THEN <<>> ELSE <<"Missing core mythological elements">>),
       [i \in 1..Len(inaccurate) |->
          "Focus on Krishna's divine and protective nature"]
         \o (IF elements THEN <<>>
             ELSE <<"Include references to divine powers, sacred places, or spiritual concepts">>))

\* The array of hasLogicalInconsistencies: 'day' && 'stars' is 'stars', and
\* so on.
Inconsistencies == <<"stars", "mountain", "fire">>

\* hasLogicalInconsistencies: ([a, b]) destructures each element, a string,
\* into its first two characters.
hasLogicalInconsistencies(imageDesc) ==
  \E n \in DOMAIN Inconsistencies :
    LET a == CharAt(Inconsistencies[n], 1)
        b == CharAt(Inconsistencies[n], 2)
    IN includes(lower(imageDesc), a) /\ includes(lower(imageDesc), b)

\* The first n elements of a sequence (slice(0, n)).
Slice(s, n) == SubSeq(s, 1, IF Len(s) < n THEN Len(s) ELSE n)

RECURSIVE JoinWith(_, _)
JoinWith(ws, sep) ==
  IF Len(ws) = 0 THEN ""
  ELSE IF Len(ws) = 1 THEN ws[1]
  ELSE ws[1] \o sep \o JoinWith(Tail(ws), sep)

\* validateVisualCoherence
validateVisualCoherence(script) ==
  LET imageDesc == script.image_description
      short == Len(imageDesc) < 30
      long == Len(imageDesc) > 100
      missingElements ==
        SelectSeq(<<"character", "pose", "expression", "setting", "lighting",
                    "clothing", "weapons", "background", "atmosphere">>,
                  LAMBDA element : ~includes(lower(imageDesc), element))
      missing == Len(missingElements) > 3
      inconsistent == hasLogicalInconsistencies(imageDesc)
  IN RuleResult(
       100 - (IF short THEN 15 ELSE 0) - (IF long THEN 10 ELSE 0)
           - (IF missing THEN 20 ELSE 0) - (IF inconsistent THEN 15 ELSE 0),
       (IF short THEN <<"Image description too short">> ELSE <<>>)
         \o (IF long THEN <<"Image description too long">> ELSE <<>>)
         \o (IF missing
             THEN <<"Missing key visual elements: "
                      \o JoinWith(Slice(missingElements, 3), ", ")>>
             ELSE <<>>)
         \o (IF inconsistent
             THEN <<"Visual elements have logical inconsistencies">> ELSE <<>>),
       (IF short THEN <<"Provide more detailed visual description">> ELSE <<>>)
         \o (IF long THEN <<"Keep description concise but detailed">> ELSE <<>>)
         \o (IF missing
             THEN <<"Include character appearance, setting, and atmosphere details">>
             ELSE <<>>)
         \o (IF inconsistent
             THEN <<"Ensure all visual elements work together logically">>
             ELSE <<>>))

\* hasCulturalStereotypes
hasCulturalStereotypes(script) ==
  someIncluded({"mystical east", "exotic", "oriental", "primitive"},
               CaptionAndDescription(script))

\* checkAuthenticCulturalElements
checkAuthenticCulturalElements(script) ==
  someIncluded({"temple", "ashram", "guru", "yoga", "meditation", "bhakti",
                "dharma", "karma", "moksha"},
               CaptionAndDescription(script))

\* validateCulturalAuthenticity
validateCulturalAuthenticity(script) ==
  LET hasDisrespectfulTerms ==
        \E term \in {"idol", "pagan", "primitive", "superstitious"} :
          \/ includes(lower(script.narrator_caption), term)
          \/ includes(lower(script.image_description), term)
      stereotypes == hasCulturalStereotypes(script)
      authentic == checkAuthenticCulturalElements(script)
  IN RuleResult(
       100 - (IF hasDisrespectfulTerms THEN 25 ELSE 0)
           - (IF stereotypes THEN 20 ELSE 0) - (IF authentic THEN 0 ELSE 15),
       (IF hasDisrespectfulTerms
        THEN <<"Contains disrespectful language">> ELSE <<>>)
         \o (IF stereotypes THEN <<"Contains cultural stereotypes">> ELSE <<>>)
         \o (IF authentic THEN <<>>
             ELSE <<"Missing authentic cultural elements">>),
       (IF hasDisrespectfulTerms
        THEN <<"Use respectful and culturally appropriate terminology">>
        ELSE <<>>)
         \o (IF stereotypes
             THEN <<"Avoid oversimplified cultural representations">> ELSE <<>>)
         \o (IF authentic THEN <<>>
             ELSE <<"Include specific cultural details and traditions">>))

\* caption.endsWith('.')
endsWith(text, key) ==
  Len(text) >= Len(key) /\ SubSeq(text, Len(text) - Len(key) + 1, Len(text)) = key

\* hasNarrativeStructure: split(' ') gives one word more than there are
\* spaces.
hasNarrativeStructure(caption) ==
  /\ 1 + Cardinality({i \in 1..Len(caption) : CharAt(caption, i) = " "}) >= 10
  /\ includes(caption, ",")
  /\ endsWith(caption, ".")

\* validateStorytellingQuality
validateStorytellingQuality(script) ==
  LET caption == script.narrator_caption
      dialogue == script.dialogue
      short == Len(caption) < 15
      long == Len(caption) > 35
      wordy == Len(dialogue) > 20
      hasEmotionalImpact ==
        \E word \in {"divine", "sacred", "majestic", "powerful", "beautiful",
                     "awe-inspiring"} :
          includes(lower(caption), word) \/ includes(lower(dialogue), word)
      structured == hasNarrativeStructure(caption)
  IN RuleResult(
       100 - (IF short THEN 15 ELSE 0) - (IF long THEN 10 ELSE 0)
           - (IF wordy THEN 10 ELSE 0) - (IF hasEmotionalImpact THEN 0 ELSE 15)
           - (IF structured THEN 0 ELSE 10),
       (IF short THEN <<"Narrator caption too short">> ELSE <<>>)
         \o (IF long THEN <<"Narrator caption too long">> ELSE <<>>)
         \o (IF wordy THEN <<"Dialogue too long">> ELSE <<>>)
         \o (IF hasEmotionalImpact THEN <<>> ELSE <<"Lacks emotional impact">>)
         \o (IF structured THEN <<>> ELSE <<"Poor narrative structure">>),
       (IF short THEN <<"Provide more descriptive narration">> ELSE <<>>)
         \o (IF long THEN <<"Keep narration concise but impactful">> ELSE <<>>)
         \o (IF wordy THEN <<"Keep dialogue short and impactful">> ELSE <<>>)
         \o (IF hasEmotionalImpact THEN <<>>
             ELSE <<"Include words that convey mythological grandeur">>)
         \o (IF structured THEN <<>>
             ELSE <<"Create a clear beginning, middle, and end in the narration">>))

\* VALIDATION_RULES: the rules in order, each weight in hundredths (0.3,
\* 0.25, 0.25, 0.2).  The sums and the quotient of validateQuality are
\* computed exactly; so are they in IEEE doubles for every score the rules
\* return, the weights and the scores being what they are.
VALIDATION_RULES ==
  <<[name |-> "Mythological Accuracy", weight |-> 30],
    [name |-> "Visual Coherence", weight |-> 25],
    [name |-> "Cultural Authenticity", weight |-> 25],
    [name |-> "Storytelling Quality", weight |-> 20]>>

\* rule.validator(script, {scene, ...context})
validator(n, script, scene) ==
  CASE n = 1 -> validateMythologicalAccuracy(script, scene)
    [] n = 2 -> validateVisualCoherence(script)
    [] n = 3 -> validateCulturalAuthenticity(script)
    [] n = 4 -> validateStorytellingQuality(script)

RECURSIVE SumTo(_, _)
SumTo(f, n) == IF n = 0 THEN 0 ELSE f[n] + SumTo(f, n - 1)

RECURSIVE Flatten(_)
Flatten(ss) == IF Len(ss) = 0 THEN <<>> ELSE Head(ss) \o Flatten(Tail(ss))

\* Math.round with a bug: Math.floor.
roundDown(numerator, denominator) == numerator \div denominator

\* Math.round(numerator / denominator), neither negative: halves go up.
round(numerator, denominator) ==
  (2 * numerator + denominator) \div (2 * denominator)

\* finalScore >= 70 with a bug: the rounded score is compared.
reachesRounded(numerator, denominator) == round(numerator, denominator) >= 70

\* numerator / denominator >= 70
reaches(numerator, denominator) == numerator >= 70 * denominator

\* validateQuality of the quality-validation module (the rule-based check;
\* AIClient.validateQuality above is the provider call).
qualityValidation(script, scene) ==
  LET rules == DOMAIN VALIDATION_RULES
      results == [n \in rules |-> validator(n, script, scene)]
      totalScore ==
        SumTo([n \in rules |-> results[n].score * VALIDATION_RULES[n].weight],
              Len(VALIDATION_RULES))
      totalWeight ==
        SumTo([n \in rules |-> VALIDATION_RULES[n].weight], Len(VALIDATION_RULES))
      strong == SelectSeq(results, LAMBDA result : result.score >= 80)
  IN [valid |-> IF totalWeight > 0 THEN reaches(totalScore, totalWeight)
                ELSE FALSE,
      score |-> IF totalWeight > 0 THEN round(totalScore, totalWeight) ELSE 0,
      issues |-> Flatten([n \in rules |-> results[n].issues]),
      suggestions |-> Flatten([n \in rules |-> results[n].suggestions]),
      strengths |-> [i \in 1..Len(strong) |->
                       IF strong[i].score >= 90 THEN "Strong excellent quality"
                       ELSE "Strong good quality"],
      metadata |-> [mythologicalAccuracy |-> results[1].score,
                    visualCoherence |-> results[2].score,
                    culturalAuthenticity |-> results[3].score,
                    storytellingQuality |-> results[4].score]]

\* ---------------------------------------------- the quality check, alone
QualityCaptions ==
  {"Krishna.",
   "The divine lord smiles.",
   "In the sacred temple, the divine lord lifts the great hill for all.",
   "An exotic idol appears"}

QualityDialogues == {"", "Fear not, for I am here with you all."}

QualityDescriptions ==
  {"Krishna",
   "Krishna holding a blue lake lily in a guru garden",
   "A day sky full of stars above a calm yoga temple",
   "An indoor hall near a high mountain",
   "An underwater fire",
   "evil Krishna, a character in a pose of anger in a dark setting",
   "The character in a calm pose and expression, the setting a temple, the lighting soft, the clothing yellow, a plain background"}

QualityScenes == {"Krishna lifts the mountain", "a quiet village"}

NoQuality ==
  [valid |-> FALSE, score |-> -1,
   metadata |-> [mythologicalAccuracy |-> -1, visualCoherence |-> -1,
                 culturalAuthenticity |-> -1, storytellingQuality |-> -1],
   visualIssues |-> <<>>]

InitQuality ==
  /\ now = 0
  /\ nodeEnv = "production"
  /\ maxRequests = [l \in Limiters |-> 1]
  /\ limits = [l \in Limiters |-> EmptyMap]
  /\ window = [l \in Limiters |-> [id \in Ids |-> NoWindow]]
  /\ lastCheck = NoCheck
  /\ useMockMode = FALSE
  /\ req = [r \in Slots |-> IdleRequest]
  /\ event = NoEvent
  /\ \E caption \in QualityCaptions, dialogue \in QualityDialogues,
        description \in QualityDescriptions, scene \in QualityScenes :
       probe = [script |-> [narrator_caption |-> caption, dialogue |-> dialogue,
                            image_description |-> description],
                scene |-> scene, done |-> FALSE, quality |-> NoQuality]

\* validateQuality(script, scene); the issues of the visual rule are kept
\* apart.
EvaluateQuality ==
  /\ ~probe.done
  /\ LET r == qualityValidation(probe.script, probe.scene)
     IN probe' = [probe EXCEPT
                    !.done = TRUE,
                    !.quality = [valid |-> r.valid, score |-> r.score,
                                 metadata |-> r.metadata,
                                 visualIssues |->
                                   validateVisualCoherence(probe.script).issues]]
  /\ UNCHANGED <<now, config, limits, req, window, lastCheck, event>>

NextQuality == EvaluateQuality

SpecQuality == InitQuality /\ [][NextQuality]_vars

\* -------------------------------------------- claims on the quality check
\* The four scores of the verdict, and their weighted sum in hundredths:
\* 0.30 mythological + 0.25 visual + 0.25 cultural + 0.20 storytelling.
Dimensions ==
  <<probe.quality.metadata.mythologicalAccuracy,
    probe.quality.metadata.visualCoherence,
    probe.quality.metadata.culturalAuthenticity,
    probe.quality.metadata.storytellingQuality>>

WeightedSum ==
  30 * Dimensions[1] + 25 * Dimensions[2] + 25 * Dimensions[3] + 20 * Dimensions[4]

\* C23: the score the quality check reports is the weighted sum of its four
\* dimension scores, 0.30 mythological + 0.25 visual + 0.25 cultural + 0.20
\* storytelling, to within rounding (half a point); the weights of the rule
\* table sum to 1; each dimension score and the reported score lie in 0..100.
C23_AggregateIsWeightedSum ==
  /\ SumTo([n \in DOMAIN VALIDATION_RULES |-> VALIDATION_RULES[n].weight],
           Len(VALIDATION_RULES)) = 100
  /\ probe.done =>
       /\ 100 * probe.quality.score - WeightedSum <= 50
       /\ WeightedSum - 100 * probe.quality.score <= 50
       /\ probe.quality.score \in 0..100
       /\ \A n \in 1..4 : Dimensions[n] \in 0..100

\* A verdict whose weighted sum is no whole number and is rounded down, the
\* four dimensions having lost points.
C23_Witness ==
  /\ probe.done
  /\ WeightedSum % 100 = 25
  /\ \A n \in 1..4 : Dimensions[n] < 100

\* C29 as stated: valid is true iff the reported (rounded) score is >= 70.
C29_AsStated ==
  probe.done => (probe.quality.valid <=> probe.quality.score >= 70)

\* C29, amended: valid is true iff the weighted sum of the four dimension
\* scores, before rounding, is >= 70; so a valid verdict reports a score >=
\* 70, while a reported 70 may be a sum in [69.5, 70) with valid false.
C29_ValidByUnroundedScore ==
  probe.done =>
    /\ probe.quality.valid <=> WeightedSum >= 7000
    /\ probe.quality.valid => probe.quality.score >= 70
    /\ probe.quality.score > 70 => probe.quality.valid

\* A verdict that reports 70 and is not valid.
C29_Witness ==
  /\ probe.done
  /\ probe.quality.score = 70
  /\ ~probe.quality.valid
  /\ WeightedSum \in 6950..6999

\* The description holds both terms of one of the contradictory pairs.
ContradictoryPair(imageDesc) ==
  \E pair \in {<<"day", "stars">>, <<"indoor", "mountain">>,
               <<"underwater", "fire">>} :
    /\ includes(lower(imageDesc), pair[1])
    /\ includes(lower(imageDesc), pair[2])

\* C27: the visual rule makes its deduction for logical inconsistencies (15
\* points, with the issue that names it) exactly when the description holds
\* both terms of one of the pairs day and stars, indoor and mountain,
\* underwater and fire, and for no other description.
C27_InconsistencyByPair ==
  probe.done =>
    (\E i \in DOMAIN probe.quality.visualIssues :
       probe.quality.visualIssues[i] = "Visual elements have logical inconsistencies")
    <=> ContradictoryPair(probe.script.image_description)

\* ------------------------------------------------------ the image prompt
\* STYLE_KEYWORDS of the route, styleKeywords of enhanceImagePrompt: the
\* same three strings.
STYLE_KEYWORDS ==
  [core |-> "classic Indian comic book art, Amar Chitra Katha inspired, vintage mythological illustration",
   visual |-> "bold black outlines, flat color areas, dramatic composition, heroic proportions, decorative borders, traditional Indian art elements",
   technical |-> "high detail, sharp focus, professional illustration, clean vector-style art, print-ready quality"]

\* COLOR_PALETTES of the route, colorPalettes of enhanceImagePrompt.
COLOR_PALETTES ==
  [vibrant |-> "rich jewel tones, golden highlights, deep saturated colors",
   earth |-> "warm earth tones, ochre and vermillion, natural pigment colors",
   divine |-> "ethereal blues and golds, divine radiance, celestial color palette"]

SCENE_ENHANCEMENTS ==
  [action |-> "dynamic action lines, impact effects, heroic proportions",
   spiritual |-> "divine radiance, ethereal lighting, cosmic background",
   general |-> "mythological grandeur, cultural authenticity, emotional depth"]

\* Object.entries(CHARACTER_STYLES)
CHARACTER_STYLES ==
  <<[character |-> "krishna",
     style |-> "dark blue skin, peacock feather crown, yellow silk garments"],
    [character |-> "hanuman",
     style |-> "orange fur, muscular build, devotional expression"],
    [character |-> "shiva",
     style |-> "ash-covered skin, third eye, serpents, tiger skin"],
    [character |-> "durga",
     style |-> "multiple arms, various weapons, riding a tiger/lion"],
    [character |-> "rama",
     style |-> "noble bearing, bow and arrows, royal garments"],
    [character |-> "ganesha",
     style |-> "elephant head, rotund belly, mouse companion"]>>

\* What a template literal makes of table[key] when key is no own key of
\* the table but one every object inherits: the text of a built-in
\* function, or of Object.prototype.
InheritedAsText(key) ==
  IF key = "__proto__" THEN "[object Object]"
  ELSE "function " \o (IF key = "constructor" THEN "Object" ELSE key)
         \o "() { [native code] }"

\* table[key] || table[fallback] inside a template literal.
Lookup(table, key, fallback) ==
  IF key \in DOMAIN table THEN table[key]
  ELSE IF key \in InheritedKeys THEN InheritedAsText(key)
  ELSE table[fallback]

\* AIClient.enhanceImagePrompt
enhanceImagePrompt(basePrompt, styleType) ==
  basePrompt \o ", " \o STYLE_KEYWORDS.core \o ", " \o STYLE_KEYWORDS.visual
    \o ", " \o Lookup(COLOR_PALETTES, styleType, "vibrant")
    \o ", " \o STYLE_KEYWORDS.technical

\* The style of the first character of CHARACTER_STYLES the description
\* names, with its comma; "" when it names none.
characterStyle(imageDescription) ==
  LET named == SelectSeq(CHARACTER_STYLES,
                         LAMBDA c : includes(lower(imageDescription), c.character))
  IN IF Len(named) = 0 THEN "" ELSE ", " \o named[1].style

\* constructImagePrompt of the generate-image route
constructImagePrompt(imageDescription, styleType, sceneType) ==
  imageDescription \o characterStyle(imageDescription)
    \o ", " \o STYLE_KEYWORDS.core \o ", " \o STYLE_KEYWORDS.visual
    \o ", " \o Lookup(COLOR_PALETTES, styleType, "vibrant")
    \o ", " \o Lookup(SCENE_ENHANCEMENTS, sceneType, "general")
    \o ", " \o STYLE_KEYWORDS.technical

\* The descriptions, styles and scene types of the image requests.
PromptDescriptions ==
  {"Krishna lifting Govardhan", "HANUMAN leaps over the sea",
   "Rama and Hanuman at the shore", "A quiet village at dawn",
   "The drama of a storm", "Shiva in meditation, Ganesha at his side"}

PromptStyles == {"vibrant", "earth", "divine", "neon", "constructor"}

PromptScenes == {"general", "action", "spiritual", "epic"}

NoPrompt == [invoked |-> "", reference |-> ""]

\* The answer of the route: none yet, the 200 with the reference prompt, or
\* the 500 of a failed image, which carries no prompt.
NoAnswer == [status |-> 0, error |-> ""]

InitPrompt ==
  /\ now = 0
  /\ nodeEnv = "production"
  /\ maxRequests = [l \in Limiters |-> 1]
  /\ limits = [l \in Limiters |-> EmptyMap]
  /\ window = [l \in Limiters |-> [id \in Ids |-> NoWindow]]
  /\ lastCheck = NoCheck
  /\ useMockMode = FALSE
  /\ req = [r \in Slots |-> IdleRequest]
  /\ event = NoEvent
  /\ \E d \in PromptDescriptions, st \in PromptStyles, sc \in PromptScenes :
       probe = [imageDescription |-> d, styleType |-> st, sceneType |-> sc,
                pc |-> "call", done |-> FALSE, prompts |-> NoPrompt,
                answer |-> NoAnswer]

\* The generate-image route in live mode calls generateImage, which calls
\* images.generate with the enhanced prompt and waits for it.
SynthesizeImage ==
  /\ probe.pc = "call"
  /\ ~useMockMode
  /\ probe' = [probe EXCEPT
                 !.pc = "image",
                 !.prompts.invoked = enhanceImagePrompt(probe.imageDescription,
                                                        probe.styleType)]
  /\ UNCHANGED <<now, config, limits, req, window, lastCheck, event>>

\* images.generate settles: with a URL the route builds the reference
\* prompt and answers 200; a failure, or an answer without a URL, makes
\* generateImage throw and the route answer 500.
ResumeSynthesize(outcome) ==
  /\ probe.pc = "image"
  /\ LET made == generateImage(FALSE, probe.imageDescription, probe.styleType,
                               outcome)
     IN probe' = [probe EXCEPT
                    !.pc = "done",
                    !.done = TRUE,
                    !.prompts.reference =
                      IF made.threw THEN ""
                      ELSE constructImagePrompt(probe.imageDescription,
                                                probe.styleType,
                                                probe.sceneType),
                    !.answer = IF made.threw
                               THEN [status |-> 500, error |-> ErrImageFailed]
                               ELSE [status |-> 200, error |-> ""]]
  /\ UNCHANGED <<now, config, limits, req, window, lastCheck, event>>

NextPrompt ==
  \/ SynthesizeImage
  \/ \E outcome \in ImageOutcomes : ResumeSynthesize(outcome)

SpecPrompt == InitPrompt /\ [][NextPrompt]_vars

\* ------------------------------------------- claims on the image prompt
\* The palette of a style category, the default one for an unknown style.
PaletteOf(styleType) ==
  IF styleType \in DOMAIN COLOR_PALETTES THEN COLOR_PALETTES[styleType]
  ELSE COLOR_PALETTES.vibrant

\* The styling fragments of the characters whose keyword the description
\* holds.
FragmentsOf(imageDescription) ==
  {CHARACTER_STYLES[n].style :
     n \in {k \in DOMAIN CHARACTER_STYLES :
              includes(lower(imageDescription), CHARACTER_STYLES[k].character)}}

\* The prompt is the description followed by fragments, among them a
\* character fragment when a character is named, the fixed style and
\* technical fragments, and the palette of the style.
Concatenates(prompt, imageDescription, styleType) ==
  /\ SubSeq(prompt, 1, Len(imageDescription)) = imageDescription
  /\ FragmentsOf(imageDescription) # {} =>
       \E f \in FragmentsOf(imageDescription) : includes(prompt, f)
  /\ includes(prompt, STYLE_KEYWORDS.core)
  /\ includes(prompt, STYLE_KEYWORDS.visual)
  /\ includes(prompt, STYLE_KEYWORDS.technical)
  /\ includes(prompt, PaletteOf(styleType))

\* C25: the prompt image synthesis is invoked with is the concatenation of
\* the visual description, the styling fragment of the character the
\* description names by keyword (if any), the fixed style and
\* technical-quality fragments, and the palette fragment of the requested
\* style, the default palette for an unknown style.
C25_InvokedPromptConcatenates ==
  probe.done =>
    Concatenates(probe.prompts.invoked, probe.imageDescription, probe.styleType)

\* ------------------------------------------ claims on the stored counts
\* Every stored entry counts at least one admission and at most `ceiling`.
CountsInRange ==
  \A l \in Limiters : \A id \in DOMAIN limits[l] :
    limits[l][id].count >= 1 /\ limits[l][id].count <= maxRequests[l]

\* The admitted check reports what is left of the ceiling after it.
RemainingReported ==
  (lastCheck.limiter \in Limiters /\ lastCheck.result.allowed) =>
    /\ lastCheck.result.remaining =
         maxRequests[lastCheck.limiter] - lastCheck.after.count
    /\ lastCheck.result.remaining >= 0
    /\ lastCheck.result.remaining <= maxRequests[lastCheck.limiter] - 1

\* In one step a count is set to 1 or stepped by one, or stays.
CountSteps ==
  \A l \in Limiters : \A id \in DOMAIN limits'[l] :
    \/ limits'[l][id].count = 1
    \/ /\ id \in DOMAIN limits[l]
       /\ limits'[l][id].count \in {limits[l][id].count, limits[l][id].count + 1}

\* C26: in every reachable state of a limiter whose ceiling is >= 1, each
\* stored entry has 1 <= count <= ceiling; a count changes only by being
\* set to 1 or by being incremented by exactly 1; and every admitted check
\* reports remaining = ceiling - count, the count being the one after the
\* check, so that 0 <= remaining <= ceiling - 1.
C26_CountBetweenOneAndCeiling ==
  /\ [](CountsInRange /\ RemainingReported)
  /\ [][CountSteps]_vars

\* An entry that has been stepped from 1 to a ceiling above 1, its last
\* admission reporting that nothing remains.
C26_Witness ==
  /\ lastCheck.limiter = "script"
  /\ maxRequests["script"] > 1
  /\ lastCheck.result.allowed
  /\ lastCheck.before.count = maxRequests["script"] - 1
  /\ lastCheck.after.count = maxRequests["script"]
  /\ lastCheck.result.remaining = 0

\* ------------------------------------ a limiter and its unswept twin
\* The same checks at the same times are made of the script limiter, which
\* is swept at any moment, and of a twin limiter of the same ceiling whose
\* cleanup never runs; probe holds the twin's map, the entry its latest
\* check found and what that check returned.
InitTwin ==
  /\ InitLimiter
  /\ nodeEnv = "production"

\* isAllowed(identifier) of both limiters at the current time.
TwinCheck(id) ==
  /\ Checked("script", id)
  /\ LET m == IF probe = NoProbe THEN EmptyMap ELSE probe.limits
         r == isAllowed(m, maxRequests["script"], id, now)
     IN probe' = [limits |-> r.limits,
                  before |-> IF id \in DOMAIN m THEN m[id] ELSE NoEntry,
                  result |-> r.result]
  /\ UNCHANGED <<now, config, req, event>>

NextTwin ==
  \/ \E id \in Ids : TwinCheck(id)
  \/ Sweep /\ UNCHANGED event
  \/ Tick /\ UNCHANGED event

SpecTwin == InitTwin /\ [][NextTwin]_vars

\* ------------------------------------------- claims on the swept limiter
\* C28: the sweep is transparent to admission: whatever sweeps run between
\* the checks of a sequence made at non-decreasing times, every check
\* returns the result (allowed, remaining, resetAt) it returns when the
\* same sequence is run with no sweep at all.
C28_SweepTransparent ==
  lastCheck.limiter = "script" => lastCheck.result = probe.result

\* A check that was answered alike although a sweep had run: the swept
\* limiter had lost the expired entry of a full window, which the unswept
\* one still held, and the entry of another identity.
C28_Witness ==
  /\ lastCheck.limiter = "script"
  /\ lastCheck.at = now
  /\ lastCheck.before = NoEntry
  /\ probe.before # NoEntry
  /\ probe.before.count = maxRequests["script"]
  /\ lastCheck.result = probe.result
  /\ \E other \in DOMAIN probe.limits : other \notin DOMAIN limits["script"]

\* ------------------------------------------- C30: quota spent at the gate
\* A script the claim calls structurally valid: narration, dialogue and
\* visual description are text, the first and the last with visible text.
HoldsValidScript(script) ==
  /\ ~script.isNull
  /\ HasVisibleText(script.narrator_caption)
  /\ script.dialogue.type = "string"
  /\ HasVisibleText(script.image_description)

\* The count an admission leaves for the identity: one in a fresh window,
\* one more than before in an open one.
CountsOneMore(before, after, id, t) ==
  /\ id \in DOMAIN after
  /\ after[id].count = IF id \in DOMAIN before /\ t <= before[id].resetTime
                       THEN before[id].count + 1 ELSE 1
  /\ \A other \in DOMAIN after \ {id} :
       other \in DOMAIN before /\ after[other] = before[other]

\* complete-comic-panel takes a request in and the script quota admits it:
\* the script count of the client is one higher, the image quota untouched.
GateCounts ==
  ( /\ req["r1"].pc = "idle"
    /\ event'.step = "receive"
    /\ event'.request.route = "complete-comic-panel"
    /\ "scriptQuota" \in event'.request.did )
  => /\ CountsOneMore(limits["script"], limits'["script"],
                      event'.request.id, now)
     /\ limits'["image"] = limits["image"]

\* A later step of the admitted request, whether it goes on, succeeds or
\* ends in a rejection: the script quota is what it was, and the image
\* quota changes only in the step after validateQuality, by one admission
\* of the client, for a request holding a structurally valid script.
LaterStepKeepsQuota ==
  LET q == req["r1"]
  IN ( /\ q.route = "complete-comic-panel"
       /\ q.pc # "idle"
       /\ event'.step # "none" )
     => /\ "scriptQuota" \in q.did
        /\ limits'["script"] = limits["script"]
        /\ limits'["image"] # limits["image"] =>
             /\ event'.step = "quality"
             /\ HoldsValidScript(q.script)
             /\ CountsOneMore(limits["image"], limits'["image"], q.id, now)

\* C30: in complete-comic-panel the script quota is counted when the
\* request is admitted and no later step of the request gives it back,
\* whatever rejection the request ends in (unsafe scene, failed generation,
\* invalid structure, refused image quota, failed image); the image quota
\* is counted only for a request holding a structurally valid script.
C30_QuotaSpentAtGate == [][GateCounts /\ LaterStepKeepsQuota]_vars

\* An admitted request has reached the last stage and failed there: the 500
\* of a failed image, both quotas still counting the client.
C30_Witness ==
  /\ event.step = "image"
  /\ event.request.route = "complete-comic-panel"
  /\ event.request.pc = "done"
  /\ {"scriptQuota", "imageQuota"} \subseteq event.request.did
  /\ event.response = Rejected(500, ErrImageFailed)
  /\ event.request.id \in DOMAIN limits["script"]
  /\ limits["script"][event.request.id].count >= 1
  /\ event.request.id \in DOMAIN limits["image"]
  /\ limits["image"][event.request.id].count >= 1

====
